---- MODULE Spec2Model ----
(***************************************************************************)
(* A model of the content-generation pipeline of schema-generator.tsx:     *)
(*   - callAiWithRetry            (specification SpecRetry)                *)
(*   - fetchWithProxies and fetchWordPressWithRetry (SpecFetch)            *)
(*   - the internal-link chain run by generateContent (SpecLinks)          *)
(*   - the per-item state machine of generateContent with its start, stop  *)
(*     and edit-and-resave handlers (Spec)                                 *)
(*   - processConcurrently        (SpecPool)                               *)
(*   - normalizeGeneratedContent  (SpecNormalize)                          *)
(*   - enforceWordCount           (SpecWordCount)                          *)
(*   - enforceInternalLinkQuota   (SpecQuota)                              *)
(* Each specification moves its own variable and leaves the others at      *)
(* their idle value.                                                       *)
(***************************************************************************)
EXTENDS Integers, Sequences, FiniteSets, TLC

VARIABLES rt, ft, lk, items, stopSet, runs, isGenerating, apiCache, pool, pf

vars == <<rt, ft, lk, items, stopSet, runs, isGenerating, apiCache, pool, pf>>

(***************************************************************************)
(* Generic helpers                                                         *)
(***************************************************************************)
Range(s) == {s[i] : i \in DOMAIN s}

RECURSIVE Pow2(_)
Pow2(n) == IF n = 0 THEN 1 ELSE 2 * Pow2(n - 1)

(***************************************************************************)
(* callAiWithRetry (src/schema-generator.tsx:697-764)                      *)
(***************************************************************************)

\* Largest maxRetries argument explored; 0 is included because the function
\* accepts it (the loop body then never runs).
MaxRetriesBound == 5

\* The default initialDelay argument of callAiWithRetry (ms).
DefaultInitialDelay == 5000

\* An error thrown by the operation: status is error.status (0 when the
\* field is absent), msgStatus the three digits of a "[ddd ...]" group in the
\* message (0 when the message has none), ctx / key whether the lower-cased
\* message includes 'context length' or 'token limit' / 'api key not valid',
\* ra the retry-after header ("none", "secs", "date", "junk").
ErrorKinds ==
    { [status |-> 503, msgStatus |-> 0,   ctx |-> FALSE, key |-> FALSE, ra |-> "none"],
      [status |-> 500, msgStatus |-> 0,   ctx |-> FALSE, key |-> FALSE, ra |-> "none"],
      [status |-> 0,   msgStatus |-> 0,   ctx |-> FALSE, key |-> FALSE, ra |-> "none"],
      [status |-> 0,   msgStatus |-> 503, ctx |-> FALSE, key |-> FALSE, ra |-> "none"],
      [status |-> 429, msgStatus |-> 0,   ctx |-> FALSE, key |-> FALSE, ra |-> "none"],
      [status |-> 429, msgStatus |-> 0,   ctx |-> FALSE, key |-> FALSE, ra |-> "secs"],
      [status |-> 429, msgStatus |-> 0,   ctx |-> FALSE, key |-> FALSE, ra |-> "date"],
      [status |-> 429, msgStatus |-> 0,   ctx |-> FALSE, key |-> FALSE, ra |-> "junk"],
      [status |-> 0,   msgStatus |-> 429, ctx |-> FALSE, key |-> FALSE, ra |-> "none"],
      [status |-> 429, msgStatus |-> 404, ctx |-> FALSE, key |-> FALSE, ra |-> "none"],
      [status |-> 400, msgStatus |-> 0,   ctx |-> FALSE, key |-> FALSE, ra |-> "none"],
      [status |-> 401, msgStatus |-> 0,   ctx |-> FALSE, key |-> FALSE, ra |-> "none"],
      [status |-> 499, msgStatus |-> 0,   ctx |-> FALSE, key |-> FALSE, ra |-> "none"],
      [status |-> 0,   msgStatus |-> 404, ctx |-> FALSE, key |-> FALSE, ra |-> "none"],
      [status |-> 302, msgStatus |-> 0,   ctx |-> FALSE, key |-> FALSE, ra |-> "none"],
      [status |-> 500, msgStatus |-> 0,   ctx |-> TRUE,  key |-> FALSE, ra |-> "none"],
      [status |-> 429, msgStatus |-> 0,   ctx |-> TRUE,  key |-> FALSE, ra |-> "secs"],
      [status |-> 0,   msgStatus |-> 0,   ctx |-> FALSE, key |-> TRUE,  ra |-> "none"],
      [status |-> 503, msgStatus |-> 0,   ctx |-> FALSE, key |-> TRUE,  ra |-> "none"] }

NoError == [status |-> 0, msgStatus |-> 0, ctx |-> FALSE, key |-> FALSE, ra |-> "-"]

\* const statusCode = error.status || (statusMatch ? parseInt(...) : null)
StatusCodeOf(e) == IF e.status # 0 THEN e.status ELSE e.msgStatus

IsNonRetriableClientErrorNo429(e) ==
    LET statusCode == StatusCodeOf(e)
    IN  statusCode # 0 /\ statusCode >= 400 /\ statusCode < 500

IsNonRetriableClientError(e) ==
    LET statusCode == StatusCodeOf(e)
    IN  statusCode # 0 /\ statusCode >= 400 /\ statusCode < 500 /\ statusCode # 429

IsContextLengthError(e) == e.ctx

IsInvalidApiKeyError(e) == e.key

\* The condition of the fail-fast branch (line 713).
FailFast(e) ==
    IsNonRetriableClientError(e) \/ IsContextLengthError(e) \/ IsInvalidApiKeyError(e)

IsLastAttemptOffByOne(attempt, maxRetries) == attempt = maxRetries

IsLastAttemptOneEarly(attempt, maxRetries) == attempt >= maxRetries - 2

\* if (attempt === maxRetries - 1)
IsLastAttempt(attempt, maxRetries) == attempt = maxRetries - 1

\* Math.random() * 1000, rounded to the two ends of its range.
Jitters == {0, 999}

\* The seconds a provider asks for in a numeric retry-after header.
RetryAfterSeconds == {2}

\* retryDate.getTime() - new Date().getTime(), for a date shortly ahead.
RetryDateAhead == {1000}

ExponentialDelays(attempt, initialDelay) ==
    { initialDelay * Pow2(attempt) + j : j \in Jitters }

\* The delay computed at lines 724-757.
Delays(e, attempt, initialDelay) ==
    IF e.status = 429 \/ StatusCodeOf(e) = 429
    THEN CASE e.ra = "secs" -> { s * 1000 + 500 : s \in RetryAfterSeconds }
           [] e.ra = "date" -> { d + 500 : d \in RetryDateAhead }
           [] OTHER         -> ExponentialDelays(attempt, initialDelay)
    ELSE ExponentialDelays(attempt, initialDelay)

RtIdle == [pc |-> "off"]

FtIdle == [pc |-> "off"]

LkIdle == [stage |-> "off"]

PoolIdle == [pc |-> "off"]

PfIdle == [fn |-> "off"]

OrchIdle ==
    /\ items = <<>> /\ stopSet = {} /\ runs = <<>>
    /\ isGenerating = FALSE /\ apiCache = {}


\* pc: "loop" (at the loop test), "sleeping" (in the backoff wait),
\* "returned", "thrown".  calls counts the invocations of apiCall, fails
\* those that threw, sleeps the backoff waits started; err is the error
\* caught last and errId the number of the invocation that threw it; only503
\* tells whether every error so far was a plain HTTP 503; raised is what the
\* call throws ("operation": the caught error object itself, raisedId its
\* invocation; "generic": the new Error of line 763).
RtInit ==
    \E n \in 0..MaxRetriesBound :
        rt = [pc |-> "loop", maxRetries |-> n, initialDelay |-> DefaultInitialDelay,
              attempt |-> 0, calls |-> 0, fails |-> 0, sleeps |-> 0,
              only503 |-> TRUE,
              err |-> NoError, errId |-> 0, delay |-> 0,
              raised |-> "none", raisedId |-> 0, result |-> "none"]

Plain503(e) == e.status = 503 /\ ~e.ctx /\ ~e.key

\* for (let attempt = 0; attempt < maxRetries; attempt++)
LoopTest(attempt, maxRetries) == attempt < maxRetries

RtOthers == UNCHANGED <<ft, lk, items, stopSet, runs, isGenerating, apiCache, pool, pf>>

\* return await apiCall();  -- the operation succeeds
RtSuccess ==
    /\ rt.pc = "loop" /\ LoopTest(rt.attempt, rt.maxRetries)
    /\ rt' = [rt EXCEPT !.pc = "returned", !.calls = @ + 1, !.result = "value"]
    /\ RtOthers

\* The operation throws a fail-fast error: throw error (line 715).
RtFailFast ==
    /\ rt.pc = "loop" /\ LoopTest(rt.attempt, rt.maxRetries)
    /\ \E e \in ErrorKinds :
        /\ FailFast(e)
        /\ rt' = [rt EXCEPT !.pc = "thrown", !.calls = @ + 1, !.fails = @ + 1, !.err = e,
                            !.only503 = @ /\ Plain503(e),
                            !.errId = rt.calls + 1,
                            !.raised = "operation", !.raisedId = rt.calls + 1]
    /\ RtOthers

\* The operation throws another error on the last attempt: throw error (721).
RtGiveUp ==
    /\ rt.pc = "loop" /\ LoopTest(rt.attempt, rt.maxRetries)
    /\ \E e \in ErrorKinds :
        /\ ~FailFast(e)
        /\ IsLastAttempt(rt.attempt, rt.maxRetries)
        /\ rt' = [rt EXCEPT !.pc = "thrown", !.calls = @ + 1, !.fails = @ + 1, !.err = e,
                            !.only503 = @ /\ Plain503(e),
                            !.errId = rt.calls + 1,
                            !.raised = "operation", !.raisedId = rt.calls + 1]
    /\ RtOthers

\* The operation throws another error with attempts left: compute the delay
\* and start the wait (lines 724-760).
RtBackoff ==
    /\ rt.pc = "loop" /\ LoopTest(rt.attempt, rt.maxRetries)
    /\ \E e \in ErrorKinds :
        /\ ~FailFast(e)
        /\ ~IsLastAttempt(rt.attempt, rt.maxRetries)
        /\ \E d \in Delays(e, rt.attempt, rt.initialDelay) :
            rt' = [rt EXCEPT !.pc = "sleeping", !.calls = @ + 1, !.fails = @ + 1, !.err = e,
                            !.only503 = @ /\ Plain503(e),
                             !.errId = rt.calls + 1,
                             !.sleeps = @ + 1, !.delay = d]
    /\ RtOthers

\* The timer fires: attempt++ and back to the loop test.
RtWake ==
    /\ rt.pc = "sleeping"
    /\ rt' = [rt EXCEPT !.pc = "loop", !.attempt = @ + 1]
    /\ RtOthers

\* The loop test fails: throw new Error("AI call failed after all retries.")
RtExhausted ==
    /\ rt.pc = "loop" /\ ~LoopTest(rt.attempt, rt.maxRetries)
    /\ rt' = [rt EXCEPT !.pc = "thrown", !.raised = "generic", !.raisedId = 0]
    /\ RtOthers

RtNext == RtSuccess \/ RtFailFast \/ RtGiveUp \/ RtBackoff \/ RtWake \/ RtExhausted

RtSpecInit == RtInit /\ ft = FtIdle /\ lk = LkIdle /\ OrchIdle /\ pool = PoolIdle /\ pf = PfIdle

SpecRetry == RtSpecInit /\ [][RtNext]_vars

(***************************************************************************)
(* Properties of callAiWithRetry                                           *)
(***************************************************************************)

\* The classification as the specification words it: terminal is a status
\* in [400,500) other than 429, or a message indicating an invalid API key or
\* a context-length / token-limit overflow, whatever the status.
ClaimTerminal(e) ==
    \/ StatusCodeOf(e) \in (400..499) \ {429}
    \/ e.key
    \/ e.ctx

\* C4: an operation whose error is terminal is not invoked again: the call
\* throws that same error object at once, with no backoff wait after it (so
\* a terminal error on the first attempt means exactly one invocation and no
\* wait at all); every other error leads to a wait and another attempt while
\* attempts remain, and is thrown only on the last attempt.
C4_TerminalFailsFast ==
    /\ rt.pc = "sleeping" => ~ClaimTerminal(rt.err)
    /\ (rt.pc = "thrown" /\ rt.raised = "operation" /\ ClaimTerminal(rt.err))
          => /\ rt.raisedId = rt.errId /\ rt.errId = rt.calls
             /\ rt.calls = rt.attempt + 1
             /\ rt.sleeps = rt.attempt
    /\ (rt.pc = "thrown" /\ rt.raised = "operation" /\ ~ClaimTerminal(rt.err))
          => rt.calls = rt.maxRetries

\* C4 witness: an HTTP 401 on the first attempt of five: one invocation, no
\* wait, the error thrown.
C4_Witness ==
    /\ rt.pc = "thrown" /\ rt.maxRetries = 5 /\ rt.err.status = 401
    /\ rt.calls = 1 /\ rt.sleeps = 0 /\ rt.raised = "operation"

\* Retriable as the specification words it: 5xx, 429 or a network error (no
\* status), without a terminal message.
ClaimRetriable(e) ==
    /\ ~e.key /\ ~e.ctx
    /\ StatusCodeOf(e) >= 500 \/ StatusCodeOf(e) = 429 \/ StatusCodeOf(e) = 0

\* C5: the operation is never invoked more than maxRetries times; a call
\* that returns has made exactly k+1 invocations after k < maxRetries failed
\* ones and returns the success value; and a retriable failure ends the call
\* only when it is the maxRetries-th one (so k < maxRetries retriable failures
\* are always followed by another invocation).
C5_RetriesThenSuccess ==
    /\ rt.pc # "off" => rt.calls <= rt.maxRetries
    /\ rt.pc = "returned"
          => /\ rt.result = "value"
             /\ rt.calls = rt.fails + 1
             /\ rt.fails < rt.maxRetries
             /\ rt.sleeps = rt.fails
    /\ (rt.pc = "thrown" /\ rt.raised = "operation" /\ ClaimRetriable(rt.err))
          => rt.fails = rt.maxRetries
    /\ rt.pc = "sleeping" => rt.fails < rt.maxRetries

\* C5 witness: three 503 failures and then a success: four invocations.
C5_Witness ==
    /\ rt.pc = "returned" /\ rt.only503 /\ rt.fails = 3 /\ rt.calls = 4
    /\ rt.result = "value"

\* C6: when all maxRetries (>= 1) attempts have failed, the last of them
\* with a retriable error, the call has thrown the error object of the final
\* attempt.
C6_ExhaustionThrowsLastError ==
    (rt.pc # "off" /\ rt.maxRetries >= 1 /\ rt.fails = rt.maxRetries
        /\ ~ClaimTerminal(rt.err))
      => /\ rt.pc = "thrown"
         /\ rt.raised = "operation"
         /\ rt.raisedId = rt.maxRetries
         /\ rt.errId = rt.maxRetries

\* C6 witness: five 503 failures out of five attempts.
C6_Witness ==
    /\ rt.pc = "thrown" /\ rt.maxRetries = 5 /\ rt.fails = 5 /\ rt.only503

\* C7 as stated: when every attempt failed with a retriable error the error
\* thrown is the generic exhaustion error, not the last operational error.
C7_ExhaustionIsGeneric ==
    (rt.pc = "thrown" /\ rt.maxRetries >= 1 /\ rt.fails = rt.maxRetries
        /\ ~ClaimTerminal(rt.err))
      => rt.raised = "generic"

\* C7 amended: a call that fails throws the generic exhaustion error exactly
\* when maxRetries is 0 (no attempt was made); with maxRetries >= 1 it throws
\* the operation's own last error.
C7_GenericOnlyWithoutAttempts ==
    rt.pc = "thrown"
      => /\ rt.raised = "generic" <=> rt.maxRetries = 0
         /\ rt.raised = "generic" => rt.calls = 0
         /\ rt.raised = "operation" => rt.raisedId = rt.calls

\* C7 witness: the last of five attempts fails with a 503 and that error is
\* what the call throws.
C7_Witness ==
    /\ rt.pc = "thrown" /\ rt.maxRetries = 5 /\ rt.calls = 5
    /\ rt.err.status = 503 /\ ~rt.err.key
    /\ rt.raised = "operation" /\ rt.raisedId = 5

(***************************************************************************)
(* fetchWithProxies (776-872) and fetchWordPressWithRetry (884-962)        *)
(***************************************************************************)

\* const proxies = [ ... ] of fetchWithProxies (lines 817-823)
NumProxies == 5

\* const proxies = [ ... ] of fetchWordPressWithRetry (lines 930-933)
NumWpProxies == 2

\* What one transport attempt ends in: a response that is ok (2xx), a 4xx or
\* another non-ok response, the timeout's AbortError, or a network exception.
Outcomes == {"ok", "4xx", "5xx", "abort", "neterr"}

IsResponse(o) == o \in {"ok", "4xx", "5xx"}

\* The requests the program issues: the sitemap and page fetches carry no
\* credential (2941, 3267), the Serper calls carry X-API-KEY (3171, 3909,
\* 3925), the WordPress calls carry Authorization (4187-4290).  The
\* unauthenticated WordPress request exercises lines 907-961.
Requests ==
    { [fn |-> "fetchWithProxies",        hdr |-> "none"],
      [fn |-> "fetchWithProxies",        hdr |-> "X-API-KEY"],
      [fn |-> "fetchWordPressWithRetry", hdr |-> "Authorization"],
      [fn |-> "fetchWordPressWithRetry", hdr |-> "none"] }


\* log: the transport attempts made so far, in order; t = 0 is the direct
\* connection, t = k the k-th proxy; hdr is the credential header the
\* attempt carried (options.headers is spread into every attempt); o its
\* outcome.  lastError: "null", or the outcome that set it.
FtInit ==
    \E r \in Requests :
        ft = [pc |-> "direct", fn |-> r.fn, hdr |-> r.hdr, i |-> 1, log |-> <<>>,
              lastError |-> "null", result |-> "none"]

FtOthers == UNCHANGED <<rt, lk, items, stopSet, runs, isGenerating, apiCache, pool, pf>>

Attempt(t, o) == [t |-> t, hdr |-> ft.hdr, o |-> o]

\* if (directResponse.ok) return directResponse;
DirectUsableAny4xx(o) == o \in {"ok", "4xx"}

DirectUsable(o) == o = "ok"

\* if (response.ok) return response;
ProxyUsable(o) == o = "ok"

\* for (let i = 0; i < proxies.length; i++)
MoreProxiesSkipLast(i) == i < NumProxies

MoreProxies(i) == i <= NumProxies

\* fetchWithProxies, lines 790-813: the direct attempt.  A non-ok response
\* falls through with lastError unset; an exception sets lastError.
FwpDirect ==
    /\ ft.pc = "direct" /\ ft.fn = "fetchWithProxies"
    /\ \E o \in Outcomes :
        ft' = [ft EXCEPT !.log = Append(@, Attempt(0, o)),
                         !.pc = IF DirectUsable(o) THEN "returned" ELSE "proxy",
                         !.result = IF DirectUsable(o) THEN "direct" ELSE @,
                         !.lastError = IF IsResponse(o) THEN @ ELSE o]
    /\ FtOthers

\* fetchWithProxies, lines 825-861: one iteration of the proxy loop.
FwpProxy ==
    /\ ft.pc = "proxy" /\ ft.fn = "fetchWithProxies" /\ MoreProxies(ft.i)
    /\ \E o \in Outcomes :
        ft' = [ft EXCEPT !.log = Append(@, Attempt(ft.i, o)),
                         !.pc = IF ProxyUsable(o) THEN "returned" ELSE "proxy",
                         !.result = IF ProxyUsable(o) THEN "proxy" ELSE @,
                         !.i = IF ProxyUsable(o) THEN @ ELSE @ + 1,
                         !.lastError = IF ProxyUsable(o) THEN @ ELSE o]
    /\ FtOthers

\* fetchWithProxies, lines 863-871: all proxies failed.
FwpThrow ==
    /\ ft.pc = "proxy" /\ ft.fn = "fetchWithProxies" /\ ~MoreProxies(ft.i)
    /\ ft' = [ft EXCEPT !.pc = "thrown", !.result = "aggregated"]
    /\ FtOthers

\* const hasAuthHeader = options.headers && options.headers['Authorization']
HasAuthHeader(hdr) == hdr = "Authorization"

\* fetchWordPressWithRetry, lines 890-905: an authenticated request is sent
\* directly, once; any response is returned, an exception is thrown.
WpAuthDirect ==
    /\ ft.pc = "direct" /\ ft.fn = "fetchWordPressWithRetry" /\ HasAuthHeader(ft.hdr)
    /\ \E o \in Outcomes :
        ft' = [ft EXCEPT !.log = Append(@, Attempt(0, o)),
                         !.pc = IF IsResponse(o) THEN "returned" ELSE "thrown",
                         !.result = IF IsResponse(o) THEN "direct"
                                    ELSE IF o = "abort" THEN "timed out" ELSE "raw",
                         !.lastError = IF IsResponse(o) THEN @ ELSE o]
    /\ FtOthers

\* if (response.ok || (response.status >= 400 && response.status < 500))
WpUsable(o) == o \in {"ok", "4xx"}

\* fetchWordPressWithRetry, lines 910-926: the unauthenticated direct attempt.
WpDirect ==
    /\ ft.pc = "direct" /\ ft.fn = "fetchWordPressWithRetry" /\ ~HasAuthHeader(ft.hdr)
    /\ \E o \in Outcomes :
        ft' = [ft EXCEPT !.log = Append(@, Attempt(0, o)),
                         !.pc = IF WpUsable(o) THEN "returned" ELSE "proxy",
                         !.result = IF WpUsable(o) THEN "direct" ELSE @,
                         !.lastError = IF WpUsable(o) THEN @ ELSE o]
    /\ FtOthers

\* fetchWordPressWithRetry, lines 935-959: one iteration of the proxy loop.
WpProxy ==
    /\ ft.pc = "proxy" /\ ft.fn = "fetchWordPressWithRetry" /\ ft.i <= NumWpProxies
    /\ \E o \in Outcomes :
        ft' = [ft EXCEPT !.log = Append(@, Attempt(ft.i, o)),
                         !.pc = IF WpUsable(o) THEN "returned" ELSE "proxy",
                         !.result = IF WpUsable(o) THEN "proxy" ELSE @,
                         !.i = IF WpUsable(o) THEN @ ELSE @ + 1,
                         !.lastError = IF WpUsable(o) THEN @ ELSE o]
    /\ FtOthers

\* throw lastError || new Error("All attempts ... failed.")
WpThrow ==
    /\ ft.pc = "proxy" /\ ft.fn = "fetchWordPressWithRetry" /\ ft.i > NumWpProxies
    /\ ft' = [ft EXCEPT !.pc = "thrown", !.result = "last error"]
    /\ FtOthers

FtNext == FwpDirect \/ FwpProxy \/ FwpThrow \/ WpAuthDirect \/ WpDirect \/ WpProxy \/ WpThrow

FtSpecInit == FtInit /\ rt = RtIdle /\ lk = LkIdle /\ OrchIdle /\ pool = PoolIdle /\ pf = PfIdle

SpecFetch == FtSpecInit /\ [][FtNext]_vars

(***************************************************************************)
(* Properties of the fetch layer                                           *)
(***************************************************************************)

\* C8: fetchWithProxies tries the direct connection first and then the
\* proxies in list order, one attempt each; no attempt follows an ok
\* response; it returns only an ok response, the one of its last attempt;
\* and it throws only after the direct attempt and all proxies have failed.
C8_DirectThenProxiesInOrder ==
    ft.pc # "off" /\ ft.fn = "fetchWithProxies"
      => /\ \A k \in DOMAIN ft.log : ft.log[k].t = k - 1
         /\ \A k \in DOMAIN ft.log : k < Len(ft.log) => ft.log[k].o # "ok"
         /\ Len(ft.log) <= NumProxies + 1
         /\ ft.pc = "returned"
              => Len(ft.log) >= 1 /\ ft.log[Len(ft.log)].o = "ok"
         /\ ft.pc = "proxy" => Len(ft.log) >= 1
         /\ ft.pc = "thrown"
              => /\ Len(ft.log) = NumProxies + 1
                 /\ \A k \in DOMAIN ft.log : ft.log[k].o # "ok"

\* C8 witness: the direct attempt and the first two proxies fail in three
\* different ways and the third proxy answers ok.
C8_Witness ==
    /\ ft.pc = "returned" /\ ft.fn = "fetchWithProxies" /\ Len(ft.log) = 4
    /\ ft.log[1].o = "neterr" /\ ft.log[2].o = "5xx" /\ ft.log[3].o = "abort"
    /\ ft.log[4].o = "ok" /\ ft.log[4].t = 3

\* C9: a request carrying a credential header is attempted on the direct
\* transport only, exactly once, and never through a proxy.
C9_CredentialsNeverProxied ==
    ft.pc # "off"
      => \A k \in DOMAIN ft.log :
            ft.log[k].hdr # "none" => ft.log[k].t = 0 /\ Len(ft.log) = 1

(***************************************************************************)
(* The internal-link passes (1012-1246) and the order generateContent      *)
(* runs them in (4061-4065; 3873 for a link-optimizer item)                *)
(*                                                                         *)
(* A body is a sequence of tokens standing for whitespace-separated pieces *)
(* of the HTML inside its tags: a run of plain words ("txt"), a            *)
(* placeholder-shaped token "[INTERNAL_LINK ...]" with the attributes it   *)
(* carries, in order ("ph"), or an anchor tag ("a").  Words are lower-case *)
(* and no word of the vocabulary is part of another, so that includes()    *)
(* and the case-insensitive regular expression of the quota pass are       *)
(* containment of word sequences.  Anchor texts have at most four words,   *)
(* so no search term (three words or more, bounded by whitespace on both   *)
(* sides) can match inside a placeholder.                                  *)
(***************************************************************************)

\* Longest body, in tokens, and largest page catalogue explored.
MaxBodyLen == 2
MaxCatalogue == 2

\* const MIN_INTERNAL_LINKS = 8 (line 434)
MIN_INTERNAL_LINKS == 8

\* The length of each word in characters.
WordLen(w) ==
    CASE w \in {"to", "ai"} -> 2
      [] w \in {"the", "seo", "for"} -> 3
      [] w \in {"2025", "link", "tips", "read"} -> 4
      [] w \in {"guide", "hello"} -> 5
      [] w \in {"ultimate", "building"} -> 8
      [] OTHER -> 6

RECURSIVE SumLen(_)
SumLen(ws) == IF ws = <<>> THEN 0 ELSE WordLen(Head(ws)) + SumLen(Tail(ws))

\* The length of the words joined by single spaces.
StrLen(ws) == IF ws = <<>> THEN 0 ELSE SumLen(ws) + Len(ws) - 1

\* hay.includes(needle), on word sequences.
Includes(hay, needle) ==
    \E i \in 1..(Len(hay) + 1) :
        /\ i + Len(needle) - 1 <= Len(hay)
        /\ SubSeq(hay, i, i + Len(needle) - 1) = needle

SlugAttr(v) == [n |-> "slug", s |-> v, w |-> <<>>]
TextAttr(ws) == [n |-> "text", s |-> "", w |-> ws]

Txt(ws) == [k |-> "txt", words |-> ws, attrs |-> <<>>, href |-> <<>>]
Ph(attrs) == [k |-> "ph", words |-> <<>>, attrs |-> attrs, href |-> <<>>]
Anchor(url, ws) == [k |-> "a", words |-> ws, attrs |-> <<>>, href |-> url]

\* `[INTERNAL_LINK slug="${slug}" text="${text}"]`
Placeholder(slug, ws) == Ph(<<SlugAttr(slug), TextAttr(ws)>>)

\* The sitemap pages (SitemapPage, 1252-1262): id is the full URL.
PageSeo  == [slug |-> "seo-guide", id |-> "https://example.com/seo-guide",
             title |-> <<"the", "ultimate", "seo", "guide", "2025">>]
PageLink == [slug |-> "link-building", id |-> "https://example.com/link-building",
             title |-> <<"link", "building", "tips">>]
PageTips == [slug |-> "seo-tips", id |-> "https://example.com/seo-tips",
             title |-> <<"seo", "tips">>]

AllPages == {PageSeo, PageLink, PageTips}

\* The catalogues: the sequences of at most MaxCatalogue distinct pages.
Catalogues ==
    { c \in UNION { [1..n -> AllPages] : n \in 0..MaxCatalogue } :
        \A i, j \in DOMAIN c : i # j => c[i] # c[j] }

\* The tokens a generated body is made of: plain text, well-formed
\* placeholders with a real, a near-miss and an invented slug, and malformed
\* ones (no text attribute, an empty slug, the attributes in the other
\* order, no attribute at all).
TokenPool ==
    { Txt(<<"hello">>),
      Txt(<<"read", "the", "ultimate", "seo", "guide", "2025">>),
      Txt(<<"link", "building", "tips">>),
      Placeholder("seo-guide", <<"seo", "guide">>),
      Placeholder("seo-guide-2025", <<"seo", "guide">>),
      Placeholder("made-up", <<"hello">>),
      Ph(<<SlugAttr("seo-guide")>>),
      Ph(<<SlugAttr(""), TextAttr(<<"hello">>)>>),
      Ph(<<TextAttr(<<"seo", "guide">>), SlugAttr("seo-guide")>>),
      Ph(<<>>) }

Bodies == UNION { [1..n -> TokenPool] : n \in 0..MaxBodyLen }

\* /\[INTERNAL_LINK\s+slug="([^"]+)"\s+text="([^"]+)"\]/ matches the token.
WellFormed(tok) ==
    /\ tok.k = "ph"
    /\ Len(tok.attrs) = 2
    /\ tok.attrs[1].n = "slug" /\ tok.attrs[1].s # ""
    /\ tok.attrs[2].n = "text" /\ tok.attrs[2].w # <<>>

SlugOf(tok) == tok.attrs[1].s
TextOf(tok) == tok.attrs[2].w

RECURSIVE Flatten(_)
\* content.replace(regex, fn): every token is replaced by the tokens fn
\* gives for it; parts holds these, one sequence per token.
Flatten(parts) ==
    IF parts = <<>> THEN <<>> ELSE Head(parts) \o Flatten(Tail(parts))

\* sanitizeBrokenPlaceholders (1230-1246): match.match(/slug="([^"]+)"/) and
\* match.match(/text="([^"]+)"/) find the first non-empty attribute of that
\* name anywhere in the token.
FirstAttr(tok, name) ==
    LET hits == { i \in DOMAIN tok.attrs :
                    /\ tok.attrs[i].n = name
                    /\ IF name = "text" THEN tok.attrs[i].w # <<>>
                                        ELSE tok.attrs[i].s # "" }
    IN  IF hits = {} THEN 0 ELSE CHOOSE i \in hits : \A j \in hits : i <= j

SanitizeToken(tok) ==
    IF tok.k # "ph" THEN <<tok>>
    ELSE LET slugMatch == FirstAttr(tok, "slug")
             textMatch == FirstAttr(tok, "text")
         IN  IF slugMatch # 0 /\ textMatch # 0 THEN <<tok>>
             ELSE IF textMatch # 0 THEN <<Txt(tok.attrs[textMatch].w)>>
             ELSE <<>>

sanitizeBrokenPlaceholders(content) ==
    Flatten([i \in DOMAIN content |-> SanitizeToken(content[i])])

\* split(/\s+/).filter(w => w.length > 2), as a set
SignificantWords(ws) == { ws[i] : i \in { j \in DOMAIN ws : WordLen(ws[j]) > 2 } }

\* The score of a page against an anchor text (1038-1071), as the fraction
\* num / den: 100, 60 and 50 for the three containment tests plus the mean
\* of the two overlap percentages.
ScoreOf(page, text) ==
    LET base == (IF page.title = text THEN 100 ELSE 0)
                + (IF Includes(page.title, text) THEN 60 ELSE 0)
                + (IF Includes(text, page.title) THEN 50 ELSE 0)
        A == SignificantWords(text)
        T == SignificantWords(page.title)
        I == A \cap T
        nA == Cardinality(A)
        nT == Cardinality(T)
        nI == Cardinality(I)
    IN  IF nI > 0
        THEN [num |-> base * nA * nT + 50 * nI * (nA + nT), den |-> nA * nT]
        ELSE [num |-> base, den |-> 1]

\* a > b for fractions with positive denominators
Greater(a, b) == a.num * b.den > b.num * a.den

RECURSIVE BestMatch(_, _, _, _)
\* The loop of lines 1035-1077 from page i on; best is <<index, score>>, with
\* index 0 and score -1 at the start.  A page whose title has no significant
\* word is skipped.
BestMatch(pages, text, i, best) ==
    IF i > Len(pages) THEN best
    ELSE LET page == pages[i]
             sc == ScoreOf(page, text)
         IN  IF page.slug = "" \/ page.title = <<>> \/ SignificantWords(page.title) = {}
             THEN BestMatch(pages, text, i + 1, best)
             ELSE IF Greater(sc, best[2])
             THEN BestMatch(pages, text, i + 1, <<i, sc>>)
             ELSE BestMatch(pages, text, i + 1, best)

\* if (bestMatch && highestScore > 50)
AboveThresholdInclusive(sc) == sc.num >= 50 * sc.den

AboveThreshold(sc) == sc.num > 50 * sc.den

RepairToken(tok, pages) ==
    IF ~WellFormed(tok) THEN <<tok>>
    ELSE IF \E i \in DOMAIN pages : pages[i].slug = SlugOf(tok) THEN <<tok>>
    ELSE LET best == BestMatch(pages, TextOf(tok), 1, <<0, [num |-> -1, den |-> 1]>>)
         IN  IF best[1] # 0 /\ AboveThreshold(best[2])
             THEN <<Placeholder(pages[best[1]].slug, TextOf(tok))>>
             ELSE <<Txt(TextOf(tok))>>

\* validateAndRepairInternalLinks (1012-1089)
validateAndRepairInternalLinks(content, availablePages) ==
    IF content = <<>> \/ availablePages = <<>> THEN content
    ELSE LET F(tok) == RepairToken(tok, availablePages)
         IN  Flatten([i \in DOMAIN content |-> F(content[i])])

\* The number of well-formed placeholders: [...content.matchAll(regex)].length
ExistingLinks(content) == Cardinality({ i \in DOMAIN content : WellFormed(content[i]) })

LinkedSlugsCaptured(content) ==
    { SlugOf(content[i]) : i \in { j \in DOMAIN content : WellFormed(content[j]) } }

\* new Set(existingLinks.map(match => match[1])): the regular expression of
\* line 1104 has no capture group, so match[1] is undefined for every match
\* and the set holds no slug.
LinkedSlugs(content) == {}

ButLast(ws) == SubSeq(ws, 1, Len(ws) - 1)

\* filter((v, i, a) => a.indexOf(v) === i && v.length > 10)
KeepTerms(ts) ==
    SelectSeq([i \in DOMAIN ts |->
                  IF (\A j \in 1..(i - 1) : ts[j] # ts[i]) /\ StrLen(ts[i]) > 10
                  THEN ts[i] ELSE <<>>],
              LAMBDA t : t # <<>>)

RECURSIVE InsertByLength(_, _)
InsertByLength(sorted, t) ==
    IF sorted = <<>> THEN <<t>>
    ELSE IF StrLen(t) > StrLen(Head(sorted)) THEN <<t>> \o sorted
    ELSE <<Head(sorted)>> \o InsertByLength(Tail(sorted), t)

RECURSIVE SortByLength(_)
\* sort((a, b) => b.length - a.length): longest first, stable
SortByLength(ts) ==
    IF ts = <<>> THEN <<>>
    ELSE InsertByLength(SortByLength(ButLast(ts)), ts[Len(ts)])

\* The search terms of a page title (1123-1130).
SearchTerms(title) ==
    SortByLength(KeepTerms(
        <<title>>
        \o (IF Len(title) > 4 THEN <<ButLast(title)>> ELSE <<>>)
        \o (IF Len(title) > 3 THEN <<Tail(title)>> ELSE <<>>)))

\* The candidate pages (1118-1134), in catalogue order.
CandidatePages(content, availablePages) ==
    SelectSeq(availablePages,
              LAMBDA p : /\ p.slug # "" /\ p.title # <<>>
                         /\ p.slug \notin LinkedSlugs(content)
                         /\ Len(p.title) > 2
                         /\ SearchTerms(p.title) # <<>>)

\* The first position at which term occurs in the words, 0 if none.
FirstOccurrence(ws, term) ==
    LET hits == { i \in 1..Len(ws) :
                    /\ i + Len(term) - 1 <= Len(ws)
                    /\ SubSeq(ws, i, i + Len(term) - 1) = term }
    IN  IF hits = {} THEN 0 ELSE CHOOSE i \in hits : \A j \in hits : i <= j

RECURSIVE InjectFirst(_, _, _)
\* newContent.replace(searchRegex, ...) replacing the first match only:
\* <<linkPlaced, tempContent>>.
InjectFirst(content, term, slug) ==
    IF content = <<>> THEN <<FALSE, <<>>>>
    ELSE LET tok == Head(content)
             at == IF tok.k = "txt" THEN FirstOccurrence(tok.words, term) ELSE 0
         IN  IF at # 0
             THEN LET before == SubSeq(tok.words, 1, at - 1)
                      after == SubSeq(tok.words, at + Len(term), Len(tok.words))
                  IN  <<TRUE,
                        (IF before = <<>> THEN <<>> ELSE <<Txt(before)>>)
                        \o <<Placeholder(slug, term)>>
                        \o (IF after = <<>> THEN <<>> ELSE <<Txt(after)>>)
                        \o Tail(content)>>
             ELSE LET rest == InjectFirst(Tail(content), term, slug)
                  IN  <<rest[1], <<tok>> \o rest[2]>>

RECURSIVE InjectForPage(_, _, _)
\* The loop over page.searchTerms (1144-1171): <<linkPlaced, newContent>>.
InjectForPage(content, terms, slug) ==
    IF terms = <<>> THEN <<FALSE, content>>
    ELSE LET r == InjectFirst(content, Head(terms), slug)
         IN  IF r[1] THEN r ELSE InjectForPage(content, Tail(terms), slug)

RECURSIVE InjectLoop(_, _, _, _)
\* The loop over candidatePages (1139-1172).
InjectLoop(content, candidates, deficit, newlyLinkedSlugs) ==
    IF candidates = <<>> \/ deficit <= 0 THEN content
    ELSE LET page == Head(candidates)
         IN  IF page.slug \in newlyLinkedSlugs
             THEN InjectLoop(content, Tail(candidates), deficit, newlyLinkedSlugs)
             ELSE LET r == InjectForPage(content, SearchTerms(page.title), page.slug)
                  IN  IF r[1]
                      THEN InjectLoop(r[2], Tail(candidates), deficit - 1,
                                      newlyLinkedSlugs \cup {page.slug})
                      ELSE InjectLoop(content, Tail(candidates), deficit, newlyLinkedSlugs)

\* enforceInternalLinkQuota (1101-1179); primaryKeyword is not used.
enforceInternalLinkQuota(content, availablePages, minLinks) ==
    IF availablePages = <<>> THEN content
    ELSE LET deficit == minLinks - ExistingLinks(content)
         IN  IF deficit <= 0 THEN content
             ELSE InjectLoop(content, CandidatePages(content, availablePages), deficit, {})

\* url.searchParams.set(...) three times, then url.toString()
WithUtm(id) ==
    <<id, "utm_source=wp-content-optimizer", "utm_medium=internal-link",
      "utm_campaign=content-hub-automation">>

\* new Map(availablePages.filter(p => p.slug).map(p => [p.slug, p])).get(slug):
\* the index of the last page with that slug, 0 if none.
PageBySlug(pages, slug) ==
    LET hits == { i \in DOMAIN pages : pages[i].slug # "" /\ pages[i].slug = slug }
    IN  IF hits = {} THEN 0 ELSE CHOOSE i \in hits : \A j \in hits : i >= j

ResolveTokenKeepUnknown(tok, pages) ==
    IF ~WellFormed(tok) THEN <<tok>>
    ELSE LET i == PageBySlug(pages, SlugOf(tok))
         IN  IF i # 0 /\ pages[i].id # ""
             THEN <<Anchor(WithUtm(pages[i].id), TextOf(tok))>>
             ELSE <<tok>>

ResolveToken(tok, pages) ==
    IF ~WellFormed(tok) THEN <<tok>>
    ELSE LET i == PageBySlug(pages, SlugOf(tok))
         IN  IF i # 0 /\ pages[i].id # ""
             THEN <<Anchor(WithUtm(pages[i].id), TextOf(tok))>>
             ELSE <<Txt(TextOf(tok))>>

\* processInternalLinks (1189-1222)
processInternalLinks(content, availablePages) ==
    IF content = <<>> \/ availablePages = <<>> THEN content
    ELSE LET F(tok) == ResolveToken(tok, availablePages)
         IN  Flatten([i \in DOMAIN content |-> F(content[i])])

\* lk: the body of one item on its way through the passes.  mode is
\* "standard" (lines 4061-4065) or "link-optimizer" (line 3873, where
\* processInternalLinks is the only pass); passes lists the passes run.
LkInit ==
    \E b \in Bodies, c \in Catalogues, m \in {"standard", "link-optimizer"} :
        lk = [stage |-> "raw", mode |-> m, body |-> b, raw |-> b, pages |-> c,
              passes |-> <<>>]

LkOthers == UNCHANGED <<rt, ft, items, stopSet, runs, isGenerating, apiCache, pool, pf>>

\* finalContent = sanitizeBrokenPlaceholders(finalContent);  (4062)
LkSanitize ==
    /\ lk.stage = "raw" /\ lk.mode = "standard"
    /\ lk' = [lk EXCEPT !.stage = "sanitized",
                        !.body = sanitizeBrokenPlaceholders(@),
                        !.passes = Append(@, "sanitizeBrokenPlaceholders")]
    /\ LkOthers

\* finalContent = validateAndRepairInternalLinks(finalContent, existingPages);
LkRepair ==
    /\ lk.stage = "sanitized"
    /\ lk' = [lk EXCEPT !.stage = "repaired",
                        !.body = validateAndRepairInternalLinks(@, lk.pages),
                        !.passes = Append(@, "validateAndRepairInternalLinks")]
    /\ LkOthers

\* finalContent = enforceInternalLinkQuota(finalContent, existingPages,
\*                    metaAndOutline.primaryKeyword, MIN_INTERNAL_LINKS);
LkQuota ==
    /\ lk.stage = "repaired"
    /\ lk' = [lk EXCEPT !.stage = "quota",
                        !.body = enforceInternalLinkQuota(@, lk.pages, MIN_INTERNAL_LINKS),
                        !.passes = Append(@, "enforceInternalLinkQuota")]
    /\ LkOthers

\* finalContent = processInternalLinks(finalContent, existingPages);
\* (4065, and 3873 for a link-optimizer item)
LkResolve ==
    /\ \/ lk.stage = "quota"
       \/ lk.stage = "raw" /\ lk.mode = "link-optimizer"
    /\ lk' = [lk EXCEPT !.stage = "resolved",
                        !.body = processInternalLinks(@, lk.pages),
                        !.passes = Append(@, "processInternalLinks")]
    /\ LkOthers

LkNext == LkSanitize \/ LkRepair \/ LkQuota \/ LkResolve

LkSpecInit == LkInit /\ rt = RtIdle /\ ft = FtIdle /\ OrchIdle /\ pool = PoolIdle /\ pf = PfIdle

SpecLinks == LkSpecInit /\ [][LkNext]_vars

(***************************************************************************)
(* Properties of the internal-link chain                                   *)
(***************************************************************************)

\* C1: once generateContent has run its link chain on a standard item
\* (sanitizeBrokenPlaceholders, validateAndRepairInternalLinks,
\* enforceInternalLinkQuota, processInternalLinks), whatever the body and the
\* catalogue (the empty one included), the body holds no [INTERNAL_LINK ...]
\* token, well-formed or malformed.
C1_NoPlaceholderLeft ==
    (lk.stage = "resolved" /\ lk.mode = "standard")
      => \A i \in DOMAIN lk.body : lk.body[i].k # "ph"

(***************************************************************************)
(* generateContent (3844-4108), its callers handleGenerateSingle and       *)
(* handleGenerateSelected (3608-3623), handleStopGeneration (3625-3645),   *)
(* handleSaveChanges (4110-4141) and itemsReducer (1814-1839)              *)
(*                                                                         *)
(* JavaScript runs each handler, and each stretch of an async function     *)
(* between two awaits, to completion: an action is one such stretch, with  *)
(* every dispatch it makes applied in order.  A run of generateContent is  *)
(* parked at an await (its pc) between actions.  Items are of the standard *)
(* article format or of the link-optimizer type.                           *)
(***************************************************************************)

\* The worklist holds NumItems items; at most MaxRuns calls of
\* generateContent are in flight together; an outline has at most
\* MaxSections sections, MaxFaqs questions and MaxImages image details.  The
\* Serper key is configured and valid (3898).
NumItems == 2
MaxRuns == 1
MaxSections == 1
MaxFaqs == 1
MaxImages == 1

ItemIds == 1..NumItems
RunIds == 1..MaxRuns

\* ---- itemsReducer ----

\* case 'UPDATE_STATUS'
UpdateStatus(state, id, status, statusText) ==
    [i \in DOMAIN state |->
        IF i = id THEN [state[i] EXCEPT !.status = status, !.statusText = statusText]
        ELSE state[i]]

\* case 'SET_CONTENT'
SetContent(state, id, content) ==
    [i \in DOMAIN state |->
        IF i = id THEN [state[i] EXCEPT !.status = "done", !.statusText = "Completed",
                                        !.generatedContent = content]
        ELSE state[i]]

\* case 'SET_ITEMS': every item of the payload is reset; the spread comes
\* first and status, statusText and generatedContent override it.
SetItems(payload) ==
    [i \in DOMAIN payload |->
        [payload[i] EXCEPT !.status = "idle", !.statusText = "Not Started",
                           !.generatedContent = "null"]]

\* ---- generateContent ----

\* A run: list is itemsToGenerate, idx the position of the for-of loop; pc
\* the await it is parked at: "lo" (3858), "serp" (3909), "videos" (3925),
\* "sk" (3950), "outline" (3960), "section" (3980), "faq" (4004), "refs"
\* (4014), "image" (4043), or "ended"; n the index of the inner loop it is
\* in.  res records, per position, what the run did with the item
\* ("-": nothing yet, "skipped": line 3848, "stopped": a break at 3956 or
\* 4031, "done": SET_CONTENT at 4090 or 3876, "error": the catch block,
\* "short": the catch block on a ContentTooShortError).
NoRun ==
    [pc |-> "ended", list |-> <<>>, idx |-> 0, n |-> 0, res |-> <<>>]

NewRun(list) ==
    [pc |-> "start", list |-> list, idx |-> 1, n |-> 0,
     res |-> [k \in DOMAIN list |-> "-"]]

\* The state a stretch of generateContent works on: the items (through
\* dispatch), stopGenerationRef.current, apiCache, isGenerating and the run.
Ctx(run) ==
    [items |-> items, stop |-> stopSet, cache |-> apiCache, gen |-> isGenerating,
     run |-> run]

ItemAt(c) == c.run.list[c.run.idx]

Stopped(c) == ItemAt(c) \in c.stop

\* dispatch({ type: 'UPDATE_STATUS', payload: { id: item.id, status: 'generating', ... } })
Progress(c) ==
    [c EXCEPT !.items = UpdateStatus(@, ItemAt(c), "generating", "progress")]

SetRes(c, v) == [c EXCEPT !.run.res[c.run.idx] = v]

\* The end of the for loop: setIsGenerating(false) (4107)
EndRun(c) == [c EXCEPT !.gen = FALSE, !.run.pc = "ended", !.run.idx = 0, !.run.n = 0]

\* break: the finally block runs and the for loop is left
BreakRun(c) == EndRun(SetRes(c, "stopped"))

\* Lines 3956-3960: the stop check after the keyword analysis.
AfterSk(c) ==
    IF Stopped(c) THEN BreakRun(c)
    ELSE [Progress(c) EXCEPT !.run.pc = "outline"]

\* Lines 3945-3954: the status dispatch and the keyword cache lookup.
AfterSerp(c) ==
    LET c1 == Progress(c)
    IN  IF <<"sk", ItemAt(c)>> \in c.cache THEN AfterSk(c1)
        ELSE [c1 EXCEPT !.run.pc = "sk"]

RECURSIVE LoopTop(_)
\* Lines 3847-3909: the head of the for-of loop up to the first await of the
\* item.
LoopTop(c) ==
    IF c.run.idx > Len(c.run.list) THEN EndRun(c)
    ELSE IF Stopped(c)
    THEN LoopTop([SetRes(c, "skipped") EXCEPT !.run.idx = @ + 1])
    ELSE LET c1 == [Progress(c) EXCEPT !.run.n = 0]
         IN  IF c.items[ItemAt(c)].type = "link-optimizer"
             THEN [c1 EXCEPT !.run.pc = "lo"]
             ELSE IF <<"serp", ItemAt(c)>> \notin c.cache
             THEN [c1 EXCEPT !.run.pc = "serp"]
             ELSE AfterSerp(c1)

NextItemBreak(c) == EndRun(c)

\* finally { generatedCount++ ... } and the next iteration of the for loop
NextItem(c) == LoopTop([c EXCEPT !.run.idx = @ + 1])

\* A catch block that reports the word count and drops the content.
CatchLosesContent(c, short) ==
    LET id == ItemAt(c)
        its == UpdateStatus(c.items, id, "error",
                            IF short THEN "Word count too low" ELSE "Error: message")
    IN  NextItem(SetRes([c EXCEPT !.items = its], IF short THEN "short" ELSE "error"))

\* The catch block (4092-4101; 3878-3880 for a link-optimizer item).
Catch(c, short) ==
    LET id == ItemAt(c)
        its == IF short
               THEN UpdateStatus(SetContent(c.items, id, "partial"), id, "error",
                                 "Word count too low")
               ELSE UpdateStatus(c.items, id, "error", "Error: message")
    IN  NextItem(SetRes([c EXCEPT !.items = its], IF short THEN "short" ELSE "error"))

\* Lines 4056-4090: stage 5.  fin is "ok", or "short" when enforceWordCount
\* throws ContentTooShortError.
Finalize(c, fin) ==
    LET c1 == Progress(c)
    IN  IF fin = "short" THEN Catch(c1, TRUE)
        ELSE NextItem(SetRes([c1 EXCEPT !.items = SetContent(@, ItemAt(c), "full")],
                             "done"))

\* The outline is data of the provider's response.  The model reads the
\* length of each of its lists where the code tests it: more tells whether
\* the list has an element at the index the loop is at.

\* Lines 4039-4055: the head of the image loop at index i.
ImageLoop(c, i, fin, more) ==
    IF more
    THEN IF Stopped(c) THEN Finalize(c, fin)
         ELSE [c EXCEPT !.run.pc = "image", !.run.n = i]
    ELSE Finalize(c, fin)

\* Lines 4029-4038: the stop check before stage 4.  fin = "throw" stands for
\* an outline without imageDetails, on which line 4038 throws.
AfterRefs(c, fin, more) ==
    IF Stopped(c)
    THEN BreakRun([c EXCEPT !.items =
                      UpdateStatus(@, ItemAt(c), "idle", "Stopped by user")])
    ELSE IF fin = "throw" THEN Catch(Progress(c), FALSE)
    ELSE ImageLoop(Progress(c), 0, fin, more)

\* Lines 3997-4014: the head of the FAQ loop at index i, then the
\* references call, which no stop check guards.
FaqLoop(c, i, more) ==
    IF more /\ ~Stopped(c)
    THEN [Progress(c) EXCEPT !.run.pc = "faq", !.run.n = i]
    ELSE [c EXCEPT !.run.pc = "refs", !.run.n = 0]

\* Lines 3975-3977: the head of the section loop at index i.
SectionLoop(c, i, more, moreFaq) ==
    IF more
    THEN IF Stopped(c) THEN FaqLoop(c, 0, moreFaq)
         ELSE [Progress(c) EXCEPT !.run.pc = "section", !.run.n = i]
    ELSE FaqLoop(c, 0, moreFaq)

\* ---- the specification of the orchestrator ----

Types == {"standard", "link-optimizer"}

\* After SET_ITEMS every item is idle, 'Not Started', without content.
Init ==
    /\ rt = RtIdle /\ ft = FtIdle /\ lk = LkIdle /\ pool = PoolIdle /\ pf = PfIdle
    /\ items \in [ItemIds -> {[type |-> t, status |-> "idle", statusText |-> "Not Started",
                               generatedContent |-> "null"] : t \in Types}]
    /\ stopSet = {}
    /\ runs = [r \in RunIds |-> NoRun]
    /\ isGenerating = FALSE
    /\ apiCache = {}

Others == UNCHANGED <<rt, ft, lk, pool, pf>>

\* The slot a new call of generateContent takes.
FreeRun(r) == runs[r].pc = "ended" /\ \A q \in DOMAIN runs : q < r => runs[q].pc # "ended"

RECURSIVE Filter(_, _)
\* items.filter(item => selectedItems.has(item.id)), as the list of ids
Filter(ids, selected) ==
    IF ids = <<>> THEN <<>>
    ELSE (IF Head(ids) \in selected THEN <<Head(ids)>> ELSE <<>>)
         \o Filter(Tail(ids), selected)

\* The effect of a stretch of a run on the state.
Apply(r, c) ==
    /\ items' = c.items
    /\ apiCache' = c.cache
    /\ isGenerating' = c.gen
    /\ runs' = [runs EXCEPT ![r] = c.run]

\* handleGenerateSingle; the Generate button of an idle or failed item.
HandleGenerateSingle(i, r) ==
    /\ items[i].status \in {"idle", "error"}
    /\ FreeRun(r)
    /\ stopSet' = stopSet \ {i}
    /\ Apply(r, LoopTop([items |-> items, stop |-> stopSet \ {i}, cache |-> apiCache,
                         gen |-> TRUE, run |-> NewRun(<<i>>)]))
    /\ Others

\* handleGenerateSelected; the button is disabled while isGenerating.
HandleGenerateSelected(selectedItems, r) ==
    /\ ~isGenerating
    /\ selectedItems # {}
    /\ FreeRun(r)
    /\ stopSet' = {}
    /\ Apply(r, LoopTop([items |-> items, stop |-> {}, cache |-> apiCache, gen |-> TRUE,
                         run |-> NewRun(Filter([k \in DOMAIN items |-> k], selectedItems))]))
    /\ Others

\* handleStopGeneration(itemId); the Stop button of a generating item.
HandleStopGeneration(i) ==
    /\ items[i].status = "generating"
    /\ stopSet' = stopSet \cup {i}
    /\ items' = UpdateStatus(items, i, "idle", "Stopped by user")
    /\ UNCHANGED <<runs, isGenerating, apiCache>>
    /\ Others

\* handleStopGeneration(null); Stop All is shown while isGenerating.
HandleStopAll ==
    /\ isGenerating
    /\ stopSet' = stopSet \cup {i \in DOMAIN items : items[i].status = "generating"}
    /\ items' = [i \in DOMAIN items |->
                    IF items[i].status = "generating"
                    THEN [items[i] EXCEPT !.status = "idle", !.statusText = "Stopped by user"]
                    ELSE items[i]]
    /\ isGenerating' = FALSE
    /\ UNCHANGED <<runs, apiCache>>
    /\ Others

\* handleSaveChanges, from the review dialog of a done item.
HandleSaveChanges(i) ==
    /\ items[i].status = "done"
    /\ items[i].generatedContent # "null"
    /\ items' = SetItems([items EXCEPT ![i].generatedContent = "edited"])
    /\ UNCHANGED <<stopSet, runs, isGenerating, apiCache>>
    /\ Others

Parked(r, pc) == runs[r].pc = pc

RunStep(r, c) == Apply(r, c) /\ UNCHANGED stopSet /\ Others

\* await callAI('internal_link_optimizer') returns or throws (3858-3880).
LinkOptimizerReturn(r, ok) ==
    /\ Parked(r, "lo")
    /\ LET c == Ctx(runs[r])
       IN  RunStep(r, IF ok
                      THEN NextItem(SetRes([c EXCEPT !.items =
                                               SetContent(@, ItemAt(c), "full")], "done"))
                      ELSE Catch(c, FALSE))

\* await fetchWithProxies(search) returns; a failure is caught at 3941.
SerpReturn(r, ok) ==
    /\ Parked(r, "serp")
    /\ LET c == Ctx(runs[r])
       IN  RunStep(r, IF ok THEN [c EXCEPT !.run.pc = "videos"] ELSE AfterSerp(c))

\* The video searches return, each failure caught at 3938; apiCache.set.
VideosReturn(r) ==
    /\ Parked(r, "videos")
    /\ LET c == Ctx(runs[r])
       IN  RunStep(r, AfterSerp([c EXCEPT !.cache = @ \cup {<<"serp", ItemAt(c)>>}]))

\* await callAI('semantic_keyword_generator') and JSON.parse (3950-3953).
KeywordsReturn(r, ok) ==
    /\ Parked(r, "sk")
    /\ LET c == Ctx(runs[r])
       IN  RunStep(r, IF ok
                      THEN AfterSk([c EXCEPT !.cache = @ \cup {<<"sk", ItemAt(c)>>}])
                      ELSE Catch(c, FALSE))

\* await callAI('content_meta_and_outline') and JSON.parse (3960-3975).
OutlineReturn(r, ok, more, moreFaq) ==
    /\ Parked(r, "outline")
    /\ more => 0 < MaxSections
    /\ moreFaq => 0 < MaxFaqs
    /\ LET c == Ctx(runs[r])
       IN  RunStep(r, IF ok THEN SectionLoop(c, 0, more, moreFaq) ELSE Catch(c, FALSE))

\* await callAI('write_article_section') (3980).
SectionReturn(r, ok, more, moreFaq) ==
    /\ Parked(r, "section")
    /\ more => runs[r].n + 1 < MaxSections
    /\ moreFaq => 0 < MaxFaqs
    /\ LET c == Ctx(runs[r])
       IN  RunStep(r, IF ok THEN SectionLoop(c, c.run.n + 1, more, moreFaq)
                      ELSE Catch(c, FALSE))

\* await callAI('write_faq_answer') (4004).
FaqReturn(r, ok, more) ==
    /\ Parked(r, "faq")
    /\ more => runs[r].n + 1 < MaxFaqs
    /\ LET c == Ctx(runs[r])
       IN  RunStep(r, IF ok THEN FaqLoop(c, c.run.n + 1, more) ELSE Catch(c, FALSE))

\* await callAI('generate_references'); a failure is caught at 4024.
ReferencesReturn(r, fin, more) ==
    /\ Parked(r, "refs")
    /\ more => 0 < MaxImages
    /\ RunStep(r, AfterRefs(Ctx(runs[r]), fin, more))

\* await generateImageWithFallback; a failure is caught at 4051.
ImageReturn(r, fin, more) ==
    /\ Parked(r, "image")
    /\ more => runs[r].n + 1 < MaxImages
    /\ LET c == Ctx(runs[r])
       IN  RunStep(r, ImageLoop(c, c.run.n + 1, fin, more))

Next ==
    \/ \E i \in ItemIds, r \in RunIds : HandleGenerateSingle(i, r)
    \/ \E sel \in SUBSET ItemIds, r \in RunIds : HandleGenerateSelected(sel, r)
    \/ \E i \in ItemIds : HandleStopGeneration(i)
    \/ HandleStopAll
    \/ \E i \in ItemIds : HandleSaveChanges(i)
    \/ \E r \in RunIds, ok \in BOOLEAN : LinkOptimizerReturn(r, ok)
    \/ \E r \in RunIds, ok \in BOOLEAN : SerpReturn(r, ok)
    \/ \E r \in RunIds : VideosReturn(r)
    \/ \E r \in RunIds, ok \in BOOLEAN : KeywordsReturn(r, ok)
    \/ \E r \in RunIds, ok, more, moreFaq \in BOOLEAN : OutlineReturn(r, ok, more, moreFaq)
    \/ \E r \in RunIds, ok, more, moreFaq \in BOOLEAN : SectionReturn(r, ok, more, moreFaq)
    \/ \E r \in RunIds, ok, more \in BOOLEAN : FaqReturn(r, ok, more)
    \/ \E r \in RunIds, fin \in {"ok", "short", "throw"}, more \in BOOLEAN :
          ReferencesReturn(r, fin, more)
    \/ \E r \in RunIds, fin \in {"ok", "short"}, more \in BOOLEAN :
          ImageReturn(r, fin, more)

Spec == Init /\ [][Next]_vars

\* ---- claims about the orchestrator ----

AllowedChanges ==
    {<<"idle", "generating">>, <<"generating", "done">>, <<"generating", "error">>,
     <<"generating", "idle">>}

\* C2: every change of an item's status made by a handler or by a stretch
\* of a run is idle to generating, generating to done, generating to error
\* or generating to idle.
C2_OnlyAllowedStatusChanges ==
    [][\A i \in ItemIds :
          items'[i].status # items[i].status
              => <<items[i].status, items'[i].status>> \in AllowedChanges]_vars

\* Run r is at item i.
Processing(r, i) == runs[r].pc # "ended" /\ runs[r].list[runs[r].idx] = i

\* C3: an article item whose cancellation has been requested (it is in the
\* stop set, which a new start of the item leaves) is never set to done, and
\* is idle once no run is at it any more.
C3_CancelledItemEndsIdle ==
    \A i \in stopSet :
        items[i].type = "standard" =>
        /\ items[i].status # "done"
        /\ (\A r \in RunIds : ~Processing(r, i)) => items[i].status = "idle"

ErrorTexts == {"Error: message", "Word count too low"}

\* The outcomes of the catch block.
Failed == {"error", "short"}

\* Position j of run r is excused from being generated: the run has not
\* passed it yet, the item was cancelled when its turn came, or a stop
\* ended the run at a position after k.
Excused(r, k, j) ==
    \/ runs[r].pc # "ended" /\ runs[r].idx <= j
    \/ runs[r].res[j] = "skipped"
    \/ \E m \in (k + 1)..j : runs[r].res[m] = "stopped"

\* C10: the step in which a run fails at an item leaves that item in error
\* with a message as its status text and does not end the run while items
\* are left; and every later item of the list is driven to done or error by
\* the same run, unless it is excused by a cancellation.
C10_FailureAbortsOnlyItsItem ==
    /\ [][\A r \in RunIds : \A k \in DOMAIN runs[r].res :
             (runs[r].pc # "ended" /\ runs[r].res[k] = "-" /\ runs'[r].res[k] \in Failed)
                 => /\ items'[runs[r].list[k]].status = "error"
                    /\ items'[runs[r].list[k]].statusText \in ErrorTexts
                    /\ runs'[r].pc = "ended"
                          => \A j \in DOMAIN runs'[r].res : j > k => runs'[r].res[j] = "skipped"]_vars
    /\ [](\A r \in RunIds : \A k, j \in DOMAIN runs[r].res :
             (runs[r].res[k] \in Failed /\ k < j)
                 => runs[r].res[j] \in {"done"} \cup Failed \/ Excused(r, k, j))

\* A run has failed at its first item, generated its second, and ended.
C10_Witness ==
    \E r \in RunIds :
        /\ runs[r].pc = "ended"
        /\ Len(runs[r].list) = 2
        /\ runs[r].res = <<"error", "done">>
        /\ items[runs[r].list[2]].status = "done"

\* C11: the step in which the word-count gate rejects an item's article
\* leaves the item in error, with the deficient content attached and the
\* word count as its status text; and an item holding deficient content is
\* never done.
C11_TooShortKeepsContent ==
    /\ [][\A r \in RunIds : \A k \in DOMAIN runs[r].res :
             (runs[r].pc # "ended" /\ runs[r].res[k] = "-" /\ runs'[r].res[k] = "short")
                 => /\ items'[runs[r].list[k]].status = "error"
                    /\ items'[runs[r].list[k]].generatedContent = "partial"
                    /\ items'[runs[r].list[k]].statusText = "Word count too low"]_vars
    /\ [](\A i \in ItemIds : items[i].generatedContent = "partial" => items[i].status # "done")

\* A run has ended on a rejection of the gate, and the item shows it.
C11_Witness ==
    \E r \in RunIds :
        /\ runs[r].pc = "ended"
        /\ runs[r].res = <<"short">>
        /\ items[runs[r].list[1]].status = "error"
        /\ items[runs[r].list[1]].generatedContent = "partial"

(***************************************************************************)
(* processConcurrently (973-1003)                                          *)
(*                                                                         *)
(* `concurrency` workers share one queue.  A worker runs without           *)
(* interruption from one await to the next: it polls shouldStop, shifts an *)
(* item and starts the processor, then waits for it.  The items are the    *)
(* objects the callers pass (2585, 3254), numbered 1..total.               *)
(***************************************************************************)

MaxQueue == 3
MaxConcurrency == 3

\* queue: the items not yet claimed; worker[w]: 0 while the worker's
\* processor call has not been started or is over, else the item whose
\* processor call is in flight; state[w]: "running", "returned" or "threw";
\* stop: what shouldStop() returns; promise: the state of the promise
\* processConcurrently returns.  started[x] and ended[x] count the processor
\* calls started and completed for item x; failed tells whether a
\* processor call has thrown.
PoolInit ==
    \E n \in 0..MaxQueue, c \in 1..MaxConcurrency, hasStop \in BOOLEAN :
        pool = [pc |-> "called", queue |-> [k \in 1..n |-> k], completed |-> 0,
                total |-> n, concurrency |-> c, hasStop |-> hasStop, stop |-> FALSE,
                worker |-> [w \in 1..c |-> 0], state |-> [w \in 1..c |-> "running"],
                started |-> [x \in 1..n |-> 0], ended |-> [x \in 1..n |-> 0],
                failed |-> FALSE, promise |-> "pending"]

PoolOthers == UNCHANGED <<rt, ft, lk, items, stopSet, runs, isGenerating, apiCache, pf>>

\* A stop check that never fires.
ShouldStopNever(p) == FALSE

\* shouldStop?.()
ShouldStop(p) == p.hasStop /\ p.stop

\* A shift that leaves the item in the queue.
AfterShiftKeep(queue) == queue

\* queue.shift()
AfterShift(queue) == Tail(queue)

\* The while loop of run (984-999) from its head to the next await, or to
\* the return of run.
RunLoop(p, w) ==
    IF p.queue = <<>> THEN [p EXCEPT !.state[w] = "returned", !.worker[w] = 0]
    ELSE IF ShouldStop(p)
    THEN [p EXCEPT !.queue = <<>>, !.state[w] = "returned", !.worker[w] = 0]
    ELSE LET item == Head(p.queue)
         IN  [p EXCEPT !.queue = AfterShift(@), !.worker[w] = item,
                       !.started[item] = @ + 1]

\* Promise.all(workers) (1002): rejected by the first worker that throws,
\* resolved when every worker has returned.
Settle(p) ==
    IF p.promise # "pending" THEN p
    ELSE IF \E w \in 1..p.concurrency : p.state[w] = "threw"
    THEN [p EXCEPT !.promise = "rejected"]
    ELSE IF \A w \in 1..p.concurrency : p.state[w] = "returned"
    THEN [p EXCEPT !.promise = "resolved"]
    ELSE p

RECURSIVE StartWorkers(_, _)
\* Array(concurrency).fill(null).map(run) (1001): each run is called in
\* turn and runs to its first await.
StartWorkers(p, w) ==
    IF w > p.concurrency THEN p ELSE StartWorkers(RunLoop(p, w), w + 1)

\* The call of processConcurrently up to await Promise.all(workers).
PoolStart ==
    /\ pool.pc = "called"
    /\ pool' = Settle([StartWorkers(pool, 1) EXCEPT !.pc = "awaiting"])
    /\ PoolOthers

\* await processor(item) returns: completed++, onProgress, and the loop.
ProcessorReturns(w) ==
    /\ pool.pc = "awaiting"
    /\ pool.worker[w] # 0
    /\ LET x == pool.worker[w]
       IN  pool' = Settle(RunLoop([pool EXCEPT !.completed = @ + 1,
                                               !.ended[x] = @ + 1], w))
    /\ PoolOthers

\* await processor(item) throws: run throws, its promise rejects.
ProcessorThrows(w) ==
    /\ pool.pc = "awaiting"
    /\ pool.worker[w] # 0
    /\ pool' = Settle([pool EXCEPT !.worker[w] = 0, !.state[w] = "threw",
                                   !.failed = TRUE])
    /\ PoolOthers

\* handleStopHealthAnalysis (3231-3234): stopHealthAnalysisRef.current = true
PoolStop ==
    /\ pool.pc = "awaiting"
    /\ pool.hasStop /\ ~pool.stop
    /\ pool' = [pool EXCEPT !.stop = TRUE]
    /\ PoolOthers

PoolNext ==
    \/ PoolStart
    \/ \E w \in 1..MaxConcurrency : w <= pool.concurrency /\ ProcessorReturns(w)
    \/ \E w \in 1..MaxConcurrency : w <= pool.concurrency /\ ProcessorThrows(w)
    \/ PoolStop

PoolSpecInit ==
    PoolInit /\ rt = RtIdle /\ ft = FtIdle /\ lk = LkIdle /\ OrchIdle /\ pf = PfIdle

SpecPool == PoolSpecInit /\ [][PoolNext]_vars

InFlight == {w \in 1..pool.concurrency : pool.worker[w] # 0}

C13_StopClaimsNothingMore ==
    /\ [][(pool.pc = "awaiting" /\ pool.stop) =>
             /\ pool'.started = pool.started
             /\ pool'.ended # pool.ended => pool'.completed = pool.completed + 1]_vars
    /\ []((pool.pc = "awaiting" /\ pool.stop /\ ~pool.failed) =>
             /\ pool.promise = "resolved" <=> InFlight = {}
             /\ pool.promise = "resolved" =>
                   /\ \A x \in 1..pool.total : pool.ended[x] = pool.started[x]
                   /\ pool.completed = Cardinality({x \in 1..pool.total : pool.started[x] = 1}))

\* A stop has left an item unclaimed; the call in flight has been counted
\* and the promise is resolved.
C13_Witness ==
    /\ pool.pc = "awaiting" /\ pool.stop /\ ~pool.failed
    /\ pool.promise = "resolved"
    /\ pool.completed >= 1
    /\ \E x \in 1..pool.total : pool.started[x] = 0

\* C14: while a run goes on after Stop All (isGenerating is false although
\* the run has not ended) and is at an article item, no later item of its
\* list, not yet started, is set to generating.
C14_StopAllStartsNoItem ==
    [][\A r \in RunIds :
          (/\ runs[r].pc # "ended" /\ ~isGenerating
           /\ items[runs[r].list[runs[r].idx]].type = "standard") =>
              \A j \in DOMAIN runs[r].list :
                  (j > runs[r].idx /\ items[runs[r].list[j]].status # "generating")
                      => items'[runs[r].list[j]].status # "generating"]_vars

IsPrefix(s, t) == Len(s) <= Len(t) /\ \A i \in DOMAIN s : s[i] = t[i]

\* C15: the link passes run on an item's body in the order repair, quota
\* enforcement, resolution, sanitizer: at any moment the passes run so far
\* are the beginning of that sequence, and post-processing ends with all
\* four.
C15_PassOrder ==
    LET order == <<"validateAndRepairInternalLinks", "enforceInternalLinkQuota",
                   "processInternalLinks", "sanitizeBrokenPlaceholders">>
    IN  /\ IsPrefix(lk.passes, order)
        /\ lk.stage = "resolved" => lk.passes = order

(***************************************************************************)
(* normalizeGeneratedContent (1406-1466)                                   *)
(*                                                                         *)
(* A JavaScript value is [k, v]: k its kind ("missing" for an absent       *)
(* field, "string", "number" for a non-zero number, "object", "array"),    *)
(* v the pieces of a string or the elements of an array.  A string is the  *)
(* sequence of pieces that split('</p>') gives; a piece tells whether it   *)
(* holds text and which image placeholders it holds.                       *)
(***************************************************************************)

\* A body has at most MaxParagraphs closing paragraph tags.
MaxParagraphs == 6

Missing == [k |-> "missing", v |-> <<>>]

Piece(txt, img) == [txt |-> txt, img |-> img]

\* ''
EmptyString == [k |-> "string", v |-> <<Piece(FALSE, {})>>]

SomeString == [k |-> "string", v |-> <<Piece(TRUE, {})>>]

\* n paragraphs '<p>..</p>'; the placeholders of ph sit in the first.
Paragraphs(n, ph) ==
    [k |-> "string",
     v |-> [i \in 1..(n + 1) |->
               Piece(i <= n, IF i = 1 THEN ph ELSE {})]]

SomeNumber == [k |-> "number", v |-> <<>>]

SomeObject == [k |-> "object", v |-> <<>>]

ArrayOf(n) == [k |-> "array", v |-> [i \in 1..n |-> "given"]]

\* The truthiness of a value.
Truthy(x) == x.k # "missing" /\ x # EmptyString

\* Array.isArray
IsArray(x) == x.k = "array"

\* content.includes('[IMAGE_k_PLACEHOLDER]')
IncludesImage(content, k) == \E i \in DOMAIN content.v : k \in content.v[i].img

\* paragraphs.splice(at, 0, '<p>[IMAGE_k_PLACEHOLDER]</p>') and join('</p>'),
\* or content += '<p>[IMAGE_k_PLACEHOLDER]</p>'
InjectImage(content, k, at) ==
    LET ps == content.v
        n == Len(ps)
    IN  IF n > at
        THEN [content EXCEPT !.v = SubSeq(ps, 1, at) \o <<Piece(FALSE, {k}), Piece(FALSE, {})>>
                                   \o SubSeq(ps, at + 1, n)]
        ELSE [content EXCEPT !.v = SubSeq(ps, 1, n - 1)
                                   \o <<Piece(ps[n].txt, ps[n].img \cup {k}), Piece(FALSE, {})>>]

FieldNames ==
    {"title", "slug", "content", "imageDetails", "metaDescription", "primaryKeyword",
     "semanticKeywords", "strategy", "jsonLdSchema", "socialMediaCopy"}

\* The payloads: null, or an object with, per field, a value of each kind
\* the code distinguishes.  The five fields that are only tested for
\* truthiness share their value.
Payloads ==
    {[null |-> TRUE, f |-> [n \in FieldNames |-> Missing]]} \cup
    {[null |-> FALSE,
      f |-> [n \in FieldNames |->
                CASE n = "title" -> t
                  [] n = "slug" -> sl
                  [] n = "content" -> c
                  [] n = "imageDetails" -> im
                  [] n = "semanticKeywords" -> sk
                  [] OTHER -> o]] :
        t \in {Missing, EmptyString, SomeString, SomeNumber},
        sl \in {Missing, SomeString},
        c \in {Missing, EmptyString, SomeNumber, ArrayOf(1)}
              \cup {Paragraphs(n, ph) : n \in {0, 2, MaxParagraphs}, ph \in {{}, {1}, {1, 2}}},
        im \in {Missing, SomeString, SomeObject, ArrayOf(0), ArrayOf(1), ArrayOf(2)},
        sk \in {Missing, SomeString, ArrayOf(1)},
        o \in {Missing, SomeObject}}

ItemTitles == {EmptyString, SomeString}

DefaultImages == [k |-> "array", v |-> <<"IMAGE_1", "IMAGE_2">>]

\* if (normalized.content && ...): the guard of each injection (1436, 1445)
CanInject(content) == Truthy(content)

\* Lines 1436-1444 for k = 1 and at = 2, 1445-1453 for k = 2 and at = 5.
\* includes and split are methods of a string: on a number or an object
\* includes is not a function, on an array split is not.
EnsureImage(r, k, at) ==
    IF r.threw \/ ~CanInject(r.f["content"]) THEN r
    ELSE IF r.f["content"].k # "string" THEN [r EXCEPT !.threw = TRUE]
    ELSE IF IncludesImage(r.f["content"], k) THEN r
    ELSE [r EXCEPT !.f["content"] = InjectImage(@, k, at)]

Default(r, n, cond, value) == IF cond THEN [r EXCEPT !.f[n] = value] ELSE r

normalizeGeneratedContent(parsedJson, itemTitle) ==
    LET r0 == [threw |-> FALSE, f |-> parsedJson.f]
        r1 == Default(r0, "title", ~Truthy(r0.f["title"]), itemTitle)
        r2 == Default(r1, "slug", ~Truthy(r1.f["slug"]), itemTitle)
        r3 == Default(r2, "content", ~Truthy(r2.f["content"]), EmptyString)
        im == r3.f["imageDetails"]
        r4 == IF ~Truthy(im) \/ ~IsArray(im) \/ Len(im.v) = 0
              THEN EnsureImage(EnsureImage([r3 EXCEPT !.f["imageDetails"] = DefaultImages],
                                           1, 2), 2, 5)
              ELSE r3
        r5 == Default(r4, "metaDescription", ~Truthy(r4.f["metaDescription"]), SomeString)
        r6 == Default(r5, "primaryKeyword", ~Truthy(r5.f["primaryKeyword"]), itemTitle)
        sk == r6.f["semanticKeywords"]
        r7 == Default(r6, "semanticKeywords", ~Truthy(sk) \/ ~IsArray(sk), ArrayOf(0))
        r8 == Default(r7, "strategy", ~Truthy(r7.f["strategy"]), SomeObject)
        r9 == Default(r8, "jsonLdSchema", ~Truthy(r8.f["jsonLdSchema"]), SomeObject)
        r10 == Default(r9, "socialMediaCopy", ~Truthy(r9.f["socialMediaCopy"]), SomeObject)
    IN  IF r4.threw THEN r4 ELSE r10

NormInit ==
    \E parsedJson \in Payloads, itemTitle \in ItemTitles :
        pf = [fn |-> "normalizeGeneratedContent", pc |-> "call", arg |-> parsedJson,
              title |-> itemTitle, out |-> [threw |-> FALSE, f |-> parsedJson.f]]

PfOthers == UNCHANGED <<rt, ft, lk, items, stopSet, runs, isGenerating, apiCache, pool>>

NormCall ==
    /\ pf.fn = "normalizeGeneratedContent" /\ pf.pc = "call"
    /\ pf' = [pf EXCEPT !.pc = "returned",
                        !.out = normalizeGeneratedContent(pf.arg, pf.title)]
    /\ PfOthers

NormNext == NormCall

NormSpecInit ==
    NormInit /\ rt = RtIdle /\ ft = FtIdle /\ lk = LkIdle /\ OrchIdle /\ pool = PoolIdle

SpecNormalize == NormSpecInit /\ [][NormNext]_vars

\* C16: normalizeGeneratedContent does not raise, and every field of the
\* record it returns is present.
C16_NormalizeNeverFails ==
    pf.pc = "returned" =>
        /\ ~pf.out.threw
        /\ \A n \in FieldNames : pf.out.f[n].k # "missing"

\* C17: when imageDetails is missing, not a list or empty, the result has
\* exactly two imageDetails entries and its body holds both image
\* placeholders.
C17_TwoImagesAndPlaceholders ==
    LET im == pf.arg.f["imageDetails"]
    IN  (pf.pc = "returned" /\ (~Truthy(im) \/ ~IsArray(im) \/ Len(im.v) = 0)) =>
            /\ ~pf.out.threw
            /\ Len(pf.out.f["imageDetails"].v) = 2
            /\ IncludesImage(pf.out.f["content"], 1)
            /\ IncludesImage(pf.out.f["content"], 2)

(***************************************************************************)
(* enforceWordCount (310-326) and ContentTooShortError (1340-1350)         *)
(*                                                                         *)
(* A content is a sequence of "w" (a character of a word), "s" (a          *)
(* whitespace character) and "t" (a tag, matched by /<[^>]*>/).            *)
(***************************************************************************)

MaxChars == 4
MaxMinWords == 3

RECURSIVE SeqsUpTo(_, _)
SeqsUpTo(S, n) ==
    IF n = 0 THEN {<<>>}
    ELSE LET shorter == SeqsUpTo(S, n - 1)
         IN  shorter \cup {Append(q, x) : q \in shorter, x \in S}

Contents == SeqsUpTo({"w", "s", "t"}, MaxChars)

\* content.replace(/<[^>]*>/g, ' ')
StripTags(content) == [i \in DOMAIN content |-> IF content[i] = "t" THEN "s" ELSE content[i]]

RECURSIVE CollapseSpaces(_)
\* .replace(/\s+/g, ' ')
CollapseSpaces(text) ==
    IF Len(text) <= 1 THEN text
    ELSE IF text[1] = "s" /\ text[2] = "s" THEN CollapseSpaces(Tail(text))
    ELSE <<text[1]>> \o CollapseSpaces(Tail(text))

RECURSIVE TrimStart(_)
TrimStart(text) ==
    IF text # <<>> /\ Head(text) = "s" THEN TrimStart(Tail(text)) ELSE text

RECURSIVE TrimEnd(_)
TrimEnd(text) ==
    IF text # <<>> /\ text[Len(text)] = "s" THEN TrimEnd(SubSeq(text, 1, Len(text) - 1))
    ELSE text

\* .trim()
Trim(text) == TrimEnd(TrimStart(text))

RECURSIVE SplitSpaces(_, _)
\* textOnly.split(/\s+/): the lengths of the parts between the runs of
\* whitespace; cur is the length of the part being read.  '' gives [''].
SplitSpaces(text, cur) ==
    IF text = <<>> THEN <<cur>>
    ELSE IF Head(text) = "s"
    THEN IF Len(text) > 1 /\ text[2] = "s" THEN SplitSpaces(Tail(text), cur)
         ELSE <<cur>> \o SplitSpaces(Tail(text), 0)
    ELSE SplitSpaces(Tail(text), cur + 1)

\* words.length, with words = split(...).filter(w => w.length > 0)
WordCountOf(content) ==
    LET textOnly == Trim(CollapseSpaces(StripTags(content)))
        parts == SplitSpaces(textOnly, 0)
    IN  Cardinality({i \in DOMAIN parts : parts[i] > 0})

\* A gate that rejects a count above the maximum as well.
RejectsOutsideRange(wordCount, minWords, maxWords) ==
    wordCount < minWords \/ wordCount > maxWords

\* if (wordCount < minWords) throw new ContentTooShortError(...)
Rejects(wordCount, minWords, maxWords) == wordCount < minWords

enforceWordCount(content, minWords, maxWords) ==
    LET wordCount == WordCountOf(content)
    IN  IF Rejects(wordCount, minWords, maxWords)
        THEN [threw |-> TRUE, name |-> "ContentTooShortError", content |-> content,
              wordCount |-> wordCount, ret |-> -1]
        ELSE [threw |-> FALSE, name |-> "", content |-> <<>>, wordCount |-> -1,
              ret |-> wordCount]

WcInit ==
    \E content \in Contents, minWords \in 0..MaxMinWords, over \in 0..1 :
        pf = [fn |-> "enforceWordCount", pc |-> "call", content |-> content,
              minWords |-> minWords, maxWords |-> minWords + over,
              out |-> [threw |-> FALSE, name |-> "", content |-> <<>>, wordCount |-> -1,
                       ret |-> -1]]

WcCall ==
    /\ pf.fn = "enforceWordCount" /\ pf.pc = "call"
    /\ pf' = [pf EXCEPT !.pc = "returned",
                        !.out = enforceWordCount(pf.content, pf.minWords, pf.maxWords)]
    /\ PfOthers

WcNext == WcCall

WcSpecInit ==
    WcInit /\ rt = RtIdle /\ ft = FtIdle /\ lk = LkIdle /\ OrchIdle /\ pool = PoolIdle

SpecWordCount == WcSpecInit /\ [][WcNext]_vars

\* The number of words of a content: the maximal runs of word characters,
\* tags and whitespace separating them.
Words(content) ==
    Cardinality({i \in DOMAIN content :
                    content[i] = "w" /\ (i = 1 \/ content[i - 1] # "w")})

MaxMinLinks == 3

\* A page whose title shares its words with the title of PageSeo.
PageUltimate == [slug |-> "ultimate-seo", id |-> "https://example.com/ultimate-seo",
                 title |-> <<"ultimate", "seo", "guide", "2025">>]

QuotaPages == AllPages \cup {PageUltimate}

QuotaCatalogues ==
    { c \in UNION { [1..n -> QuotaPages] : n \in 0..MaxCatalogue } :
        \A i, j \in DOMAIN c : i # j => c[i] # c[j] }

\* The tokens of a body after the repair pass: text, and well-formed
\* placeholders of a catalogue page and of another page.
QuotaTokens ==
    { Txt(<<"hello">>),
      Txt(<<"read", "the", "ultimate", "seo", "guide", "2025">>),
      Txt(<<"link", "building", "tips">>),
      Placeholder("seo-guide", <<"seo", "guide">>),
      Placeholder("made-up", <<"hello">>) }

QuotaBodies == UNION { [1..n -> QuotaTokens] : n \in 0..MaxBodyLen }

QuotaInit ==
    \E content \in QuotaBodies, availablePages \in QuotaCatalogues,
       minLinks \in 0..MaxMinLinks :
        pf = [fn |-> "enforceInternalLinkQuota", pc |-> "call", content |-> content,
              pages |-> availablePages, minLinks |-> minLinks, out |-> content]

QuotaCall ==
    /\ pf.fn = "enforceInternalLinkQuota" /\ pf.pc = "call"
    /\ pf' = [pf EXCEPT !.pc = "returned",
                        !.out = enforceInternalLinkQuota(pf.content, pf.pages, pf.minLinks)]
    /\ PfOthers

QuotaNext == QuotaCall

QuotaSpecInit ==
    QuotaInit /\ rt = RtIdle /\ ft = FtIdle /\ lk = LkIdle /\ OrchIdle /\ pool = PoolIdle

SpecQuota == QuotaSpecInit /\ [][QuotaNext]_vars

\* A search term of the page occurs in a text of the content.
Matchable(content, page) ==
    \E i \in DOMAIN content : \E t \in Range(SearchTerms(page.title)) :
        content[i].k = "txt" /\ FirstOccurrence(content[i].words, t) # 0

\* The candidate pages of the claim: pages with a title of more than two
\* words and a search term, not referenced by a placeholder of the content.
ClaimCandidates(content, availablePages) ==
    { i \in DOMAIN availablePages :
        /\ availablePages[i].slug \notin LinkedSlugsCaptured(content)
        /\ Len(availablePages[i].title) > 2
        /\ SearchTerms(availablePages[i].title) # <<>> }

Min(a, b) == IF a <= b THEN a ELSE b

\* The well-formed placeholders of the content that reference slug.
CountFor(content, slug) ==
    Cardinality({ i \in DOMAIN content : WellFormed(content[i]) /\ SlugOf(content[i]) = slug })

\* C19: with E existing placeholders, minimum M and C candidate pages
\* matchable in the body, the pass returns the content unchanged when
\* E >= M and adds exactly min(M - E, C) placeholders otherwise.
C19_QuotaAddsExactly ==
    pf.pc = "returned" =>
        LET E == ExistingLinks(pf.content)
            M == pf.minLinks
            C == Cardinality({ i \in ClaimCandidates(pf.content, pf.pages) :
                                 Matchable(pf.content, pf.pages[i]) })
        IN  IF E >= M THEN pf.out = pf.content
            ELSE ExistingLinks(pf.out) - E = Min(M - E, C)

\* C20: the pass adds at most one placeholder per catalogue page, and none
\* for a page that a placeholder of the content already references.
C20_NoDuplicateTarget ==
    pf.pc = "returned" =>
        \A i \in DOMAIN pf.pages :
            LET slug == pf.pages[i].slug
                before == CountFor(pf.content, slug)
                after == CountFor(pf.out, slug)
            IN  /\ after - before <= 1
                /\ before > 0 => after = before

(***************************************************************************)
(* enforceUniqueVideoEmbeds (1360-1396)                                    *)
(*                                                                         *)
(* A content is a sequence of tokens: a text, an iframe of another         *)
(* provider, or an iframe matched by iframeRegex.  A matched iframe is     *)
(* written <iframe pre src="https://www.youtube.com/embed/id"></iframe>,   *)
(* where pre is the sequence of the attributes before src; an attribute    *)
(* is named by the identifier its value holds ("plain" when it holds       *)
(* none).                                                                  *)
(***************************************************************************)

MaxVideoBody == 3
MaxVideos == 2

VideoIds == {"vidA", "vidB"}

Embed(pre, id) == [k |-> "embed", pre |-> pre, id |-> id]

VideoTokens ==
    {[k |-> "txt", pre |-> <<>>, id |-> ""], [k |-> "frame", pre |-> <<>>, id |-> ""]}
        \cup {Embed(pre, id) : pre \in {<<>>, <<"plain">>} \cup {<<v>> : v \in VideoIds},
                               id \in VideoIds}

VideoBodies == UNION { [1..n -> VideoTokens] : n \in 0..MaxVideoBody }

\* The selected videos; a videoId of "" is a video without the field.
VideoLists == UNION { [1..n -> [videoId : VideoIds \cup {""}]] : n \in 0..MaxVideos }

\* [...content.matchAll(iframeRegex)]: the positions of the matched iframes
Matches(content) ==
    LET idx == {i \in DOMAIN content : content[i].k = "embed"}
        Ordered[n \in 0..Cardinality(idx)] ==
            IF n = 0 THEN <<>>
            ELSE LET prev == Ordered[n - 1]
                     next == CHOOSE i \in idx :
                                /\ \A j \in DOMAIN prev : prev[j] < i
                                /\ \A j \in idx : (\A q \in DOMAIN prev : prev[q] < j) => i <= j
                 IN  Append(prev, next)
    IN  Ordered[Cardinality(idx)]

\* secondMatch[0].replace(duplicateId, secondVideo.videoId): the first
\* occurrence of the identifier in the text of the tag is replaced.
ReplaceFirst(tag, duplicateId, videoId) ==
    IF \E i \in DOMAIN tag.pre : tag.pre[i] = duplicateId
    THEN LET first == CHOOSE i \in DOMAIN tag.pre :
                        /\ tag.pre[i] = duplicateId
                        /\ \A j \in 1..(i - 1) : tag.pre[j] # duplicateId
         IN  [tag EXCEPT !.pre[first] = videoId]
    ELSE [tag EXCEPT !.id = videoId]

enforceUniqueVideoEmbeds(content, youtubeVideos) ==
    IF Len(youtubeVideos) < 2 THEN content
    ELSE LET matches == Matches(content)
         IN  IF Len(matches) < 2 THEN content
             ELSE LET firstVideoId == content[matches[1]].id
                      isDuplicate == \A i \in DOMAIN matches :
                                        content[matches[i]].id = firstVideoId
                      secondVideo == youtubeVideos[2]
                  IN  IF /\ isDuplicate
                         /\ secondVideo.videoId # ""
                         /\ secondVideo.videoId # firstVideoId
                      THEN [content EXCEPT ![matches[2]] =
                                ReplaceFirst(@, firstVideoId, secondVideo.videoId)]
                      ELSE content

VideoInit ==
    \E content \in VideoBodies, youtubeVideos \in VideoLists :
        pf = [fn |-> "enforceUniqueVideoEmbeds", pc |-> "call", content |-> content,
              videos |-> youtubeVideos, out |-> content]

VideoCall ==
    /\ pf.fn = "enforceUniqueVideoEmbeds" /\ pf.pc = "call"
    /\ pf' = [pf EXCEPT !.pc = "returned",
                        !.out = enforceUniqueVideoEmbeds(pf.content, pf.videos)]
    /\ PfOthers

VideoNext == VideoCall

VideoSpecInit ==
    VideoInit /\ rt = RtIdle /\ ft = FtIdle /\ lk = LkIdle /\ OrchIdle /\ pool = PoolIdle

SpecVideo == VideoSpecInit /\ [][VideoNext]_vars

\* C21: with two embeds of one identifier and selected videos [A, B] of
\* different identifiers, the result is the content with the identifier of
\* the second embed set to B's and nothing else changed; with fewer than two
\* videos, fewer than two embeds, or embeds of different identifiers, the
\* result is the content.
C21_SecondEmbedRewritten ==
    pf.pc = "returned" =>
        LET embeds == Matches(pf.content)
            shared == \A i \in DOMAIN embeds :
                         pf.content[embeds[i]].id = pf.content[embeds[1]].id
        IN  /\ (Len(pf.videos) < 2 \/ Len(embeds) < 2 \/ ~shared) => pf.out = pf.content
            /\ ( /\ Len(pf.videos) = 2 /\ Len(embeds) = 2 /\ shared
                 /\ pf.videos[1].videoId # "" /\ pf.videos[2].videoId # ""
                 /\ pf.videos[1].videoId # pf.videos[2].videoId )
               => pf.out = [pf.content EXCEPT ![embeds[2]].id = pf.videos[2].videoId]

(***************************************************************************)
(* ContentCache (453-471)                                                  *)
(*                                                                         *)
(* apiCache is the Map of the cache, a set of entries with one entry per   *)
(* key.  pf holds the clock read by Date.now(), the last call with its     *)
(* result, and the log of the set calls.                                   *)
(***************************************************************************)

MaxCacheSets == 3
MaxTicks == 3

TTL == 3600000

CacheKeys == {"serp", "sk"}
CacheData == {"d1", "d2"}

\* The time that passes between two calls: a millisecond, or a millisecond
\* less than the time-to-live.
TickSteps == {1, TTL - 1}

\* this.cache.get(key)
EntryOf(cache, key) == {e \in cache : e.key = key}

\* A test that takes an entry of exactly the time-to-live for fresh.
FreshInclusive(item, now) == now - item.timestamp <= TTL

\* Date.now() - item.timestamp < this.TTL
Fresh(item, now) == now - item.timestamp < TTL

\* get(key): item.data on a hit, null on a miss
CacheLookup(cache, key, now) ==
    IF \E item \in EntryOf(cache, key) : Fresh(item, now)
    THEN (CHOOSE item \in EntryOf(cache, key) : TRUE).data
    ELSE "null"

\* this.cache.set(key, {data, timestamp: Date.now()})
CacheStore(cache, key, data, now) ==
    (cache \ EntryOf(cache, key)) \cup {[key |-> key, data |-> data, timestamp |-> now]}

CacheInit ==
    /\ pf = [fn |-> "ContentCache", now |-> 0, ticks |-> 0, op |-> "new", key |-> "",
             ret |-> "null", log |-> <<>>]
    /\ apiCache = {}

CacheOthers == UNCHANGED <<rt, ft, lk, items, stopSet, runs, isGenerating, pool>>

CacheSet ==
    /\ pf.fn = "ContentCache" /\ Len(pf.log) < MaxCacheSets
    /\ \E key \in CacheKeys, data \in CacheData :
        /\ apiCache' = CacheStore(apiCache, key, data, pf.now)
        /\ pf' = [pf EXCEPT !.op = "set", !.key = key, !.ret = "null",
                            !.log = Append(@, [key |-> key, data |-> data, at |-> pf.now])]
    /\ CacheOthers

CacheGet ==
    /\ pf.fn = "ContentCache"
    /\ \E key \in CacheKeys :
        pf' = [pf EXCEPT !.op = "get", !.key = key,
                         !.ret = CacheLookup(apiCache, key, pf.now)]
    /\ UNCHANGED apiCache
    /\ CacheOthers

\* Time passes between two calls.
CacheTick ==
    /\ pf.fn = "ContentCache" /\ pf.ticks < MaxTicks
    /\ \E d \in TickSteps :
        pf' = [pf EXCEPT !.now = @ + d, !.ticks = @ + 1, !.op = "tick"]
    /\ UNCHANGED apiCache
    /\ CacheOthers

CacheNext == CacheSet \/ CacheGet \/ CacheTick

CacheSpecInit ==
    /\ CacheInit /\ rt = RtIdle /\ ft = FtIdle /\ lk = LkIdle /\ pool = PoolIdle
    /\ items = <<>> /\ stopSet = {} /\ runs = <<>> /\ isGenerating = FALSE

SpecCache == CacheSpecInit /\ [][CacheNext]_vars

\* The set calls of the log for a key.
SetsOf(key) == {i \in DOMAIN pf.log : pf.log[i].key = key}

\* The last set call of the log for a key that has one.
LastSet(key) == pf.log[CHOOSE i \in SetsOf(key) : \A j \in SetsOf(key) : j <= i]

\* C22: a get of a key returns the data of the last set of that key when
\* that set was made less than the time-to-live before, and null otherwise,
\* also for a key that was never set.
C22_LastWriteWinsWithinTtl ==
    (pf.fn = "ContentCache" /\ pf.op = "get") =>
        IF SetsOf(pf.key) # {} /\ pf.now - LastSet(pf.key).at < TTL
        THEN pf.ret = LastSet(pf.key).data
        ELSE pf.ret = "null"

\* A get missed on an entry that is exactly the time-to-live old, after a
\* key was set twice.
C22_Witness ==
    /\ pf.fn = "ContentCache" /\ pf.op = "get" /\ pf.ret = "null"
    /\ SetsOf(pf.key) # {} /\ pf.now - LastSet(pf.key).at = TTL
    /\ \E key \in CacheKeys : Cardinality(SetsOf(key)) > 1

(***************************************************************************)
(* extractJson (498-606)                                                   *)
(*                                                                         *)
(* A text is a sequence of characters: the brackets, "," and ":", "q" (a   *)
(* double quote), "b" (a backslash), "1" (a digit), "w" (a letter), "s"    *)
(* (a whitespace character), and the two words the regular expressions of  *)
(* the function look for, "fence" (three backquotes) and "json".           *)
(***************************************************************************)

MaxCut == 2

At(text, p) == IF p \in 1..Len(text) THEN text[p] ELSE "eof"

RECURSIVE SkipWs(_, _)
\* The position of the first character at or after p that is not whitespace.
SkipWs(text, p) == IF At(text, p) = "s" THEN SkipWs(text, p + 1) ELSE p

\* ---- JSON.parse: the position after the construct that starts at p, or 0
\* when there is none ----

RECURSIVE ParseString(_, _)
\* p is after the opening quote
ParseString(text, p) ==
    CASE At(text, p) = "eof" -> 0
      [] At(text, p) = "q" -> p + 1
      [] At(text, p) = "b" ->
            IF At(text, p + 1) \in {"q", "b"} THEN ParseString(text, p + 2) ELSE 0
      [] OTHER -> ParseString(text, p + 1)

RECURSIVE ParseNumber(_, _)
ParseNumber(text, p) == IF At(text, p) = "1" THEN ParseNumber(text, p + 1) ELSE p

RECURSIVE ParseValue(_, _)
RECURSIVE ParseElements(_, _)
RECURSIVE ParseMembers(_, _)

ParseValue(text, p) ==
    LET q == SkipWs(text, p)
        c == At(text, q)
    IN  CASE c = "q" -> ParseString(text, q + 1)
          [] c = "1" -> ParseNumber(text, q)
          [] c = "[" -> IF At(text, SkipWs(text, q + 1)) = "]" THEN SkipWs(text, q + 1) + 1
                        ELSE ParseElements(text, q + 1)
          [] c = "{" -> IF At(text, SkipWs(text, q + 1)) = "}" THEN SkipWs(text, q + 1) + 1
                        ELSE ParseMembers(text, q + 1)
          [] OTHER -> 0

ParseElements(text, p) ==
    LET e == ParseValue(text, p)
        q == SkipWs(text, e)
    IN  IF e = 0 THEN 0
        ELSE CASE At(text, q) = "," -> ParseElements(text, q + 1)
               [] At(text, q) = "]" -> q + 1
               [] OTHER -> 0

ParseMembers(text, p) ==
    LET k == SkipWs(text, p)
        e == IF At(text, k) = "q" THEN ParseString(text, k + 1) ELSE 0
        c == SkipWs(text, e)
        v == IF e # 0 /\ At(text, c) = ":" THEN ParseValue(text, c + 1) ELSE 0
        q == SkipWs(text, v)
    IN  IF v = 0 THEN 0
        ELSE CASE At(text, q) = "," -> ParseMembers(text, q + 1)
               [] At(text, q) = "}" -> q + 1
               [] OTHER -> 0

\* JSON.parse(text) does not throw
JsonParses(text) ==
    LET e == ParseValue(text, 1)
    IN  e # 0 /\ SkipWs(text, e) = Len(text) + 1

RECURSIVE ValueOfFrom(_, _, _)
\* The value JSON.parse gives for a text it accepts, written without the
\* whitespace between its tokens.
ValueOfFrom(text, p, inString) ==
    CASE p > Len(text) -> <<>>
      [] inString /\ text[p] = "b" ->
            <<"b", At(text, p + 1)>> \o ValueOfFrom(text, p + 2, TRUE)
      [] text[p] = "q" -> <<"q">> \o ValueOfFrom(text, p + 1, ~inString)
      [] ~inString /\ text[p] = "s" -> ValueOfFrom(text, p + 1, FALSE)
      [] OTHER -> <<text[p]>> \o ValueOfFrom(text, p + 1, inString)

ValueOf(text) == ValueOfFrom(text, 1, FALSE)

\* ---- the cleaning steps ----

\* .replace(/^```(?:json)?\s*/, '')
StripOpeningFence(text) ==
    IF At(text, 1) # "fence" THEN text
    ELSE LET from == IF At(text, 2) = "json" THEN 3 ELSE 2
         IN  SubSeq(text, SkipWs(text, from), Len(text))

\* .replace(/\s*```$/, '')
StripClosingFence(text) ==
    IF At(text, Len(text)) # "fence" THEN text
    ELSE TrimEnd(SubSeq(text, 1, Len(text) - 1))

RECURSIVE RemoveJsonFences(_)
\* .replace(/```json\s*/gi, '')
RemoveJsonFences(text) ==
    IF text = <<>> THEN <<>>
    ELSE IF At(text, 1) = "fence" /\ At(text, 2) = "json"
    THEN RemoveJsonFences(SubSeq(text, SkipWs(text, 3), Len(text)))
    ELSE <<text[1]>> \o RemoveJsonFences(Tail(text))

RECURSIVE RemoveFences(_)
\* .replace(/```\s*/g, '')
RemoveFences(text) ==
    IF text = <<>> THEN <<>>
    ELSE IF At(text, 1) = "fence"
    THEN RemoveFences(SubSeq(text, SkipWs(text, 2), Len(text)))
    ELSE <<text[1]>> \o RemoveFences(Tail(text))

RECURSIVE RemoveTrailingCommas(_)
\* .replace(/,(\s*[}\]])/g, '$1') at 516 and .replace(/,(?=\s*[}\]])/g, '')
\* at 595: every comma that whitespace and a closing bracket follow goes,
\* wherever it stands.
RemoveTrailingCommas(text) ==
    IF text = <<>> THEN <<>>
    ELSE IF text[1] = "," /\ At(text, SkipWs(text, 2)) \in {"}", "]"}
    THEN RemoveTrailingCommas(Tail(text))
    ELSE <<text[1]>> \o RemoveTrailingCommas(Tail(text))

\* cleanedText.indexOf(ch), 0 for -1
IndexOf(text, ch) ==
    IF \E i \in DOMAIN text : text[i] = ch
    THEN CHOOSE i \in DOMAIN text : text[i] = ch /\ \A j \in 1..(i - 1) : text[j] # ch
    ELSE 0

RECURSIVE ScanBalance(_, _, _, _, _, _, _)
\* The for loop of 547-572 from position i on: the position of the balanced
\* end bracket (0 when the loop runs out) and the balance it ends with.
ScanBalance(potentialJson, i, balance, inString, escapeNext, startChar, endChar) ==
    IF i > Len(potentialJson) THEN [endIndex |-> 0, balance |-> balance]
    ELSE LET char == potentialJson[i]
             nowInString == IF char = "q" THEN ~inString ELSE inString
             newBalance == IF char = startChar THEN balance + 1
                           ELSE IF char = endChar THEN balance - 1
                           ELSE balance
         IN  IF escapeNext
             THEN ScanBalance(potentialJson, i + 1, balance, inString, FALSE,
                              startChar, endChar)
             ELSE IF char = "b"
             THEN ScanBalance(potentialJson, i + 1, balance, inString, TRUE,
                              startChar, endChar)
             ELSE IF nowInString
             THEN ScanBalance(potentialJson, i + 1, balance, nowInString, FALSE,
                              startChar, endChar)
             ELSE IF newBalance = 0 THEN [endIndex |-> i, balance |-> 0]
             ELSE ScanBalance(potentialJson, i + 1, newBalance, nowInString, FALSE,
                              startChar, endChar)

\* endChar.repeat(balance)
Repeat(ch, n) == [i \in 1..n |-> ch]

Threw(message) == [threw |-> TRUE, message |-> message, ret |-> <<>>]

Returned(text) == [threw |-> FALSE, message |-> "", ret |-> text]

\* A first attempt that never succeeds, so that every text is cleaned.
ParsesAsIsNever(text) == FALSE

\* try { JSON.parse(text); return text; } (504-507)
ParsesAsIs(text) == JsonParses(text)

extractJson(text) ==
    IF text = <<>> THEN Threw("Input text is invalid or empty.")
    ELSE IF ParsesAsIs(text) THEN Returned(text)
    ELSE
    LET cleanedText ==
            RemoveTrailingCommas(RemoveFences(RemoveJsonFences(
                Trim(StripClosingFence(StripOpeningFence(text))))))
        firstBracket == IndexOf(cleanedText, "{")
        firstSquare == IndexOf(cleanedText, "[")
        startIndex == IF firstBracket = 0 THEN firstSquare
                      ELSE IF firstSquare = 0 THEN firstBracket
                      ELSE IF firstBracket < firstSquare THEN firstBracket
                      ELSE firstSquare
        potentialJson == SubSeq(cleanedText, startIndex, Len(cleanedText))
        startChar == potentialJson[1]
        endChar == IF startChar = "{" THEN "}" ELSE "]"
        scan == ScanBalance(potentialJson, 2, 1, FALSE, FALSE, startChar, endChar)
        jsonCandidate ==
            IF scan.endIndex # 0 THEN SubSeq(potentialJson, 1, scan.endIndex)
            ELSE IF scan.balance > 0 THEN potentialJson \o Repeat(endChar, scan.balance)
            ELSE potentialJson
        repaired == RemoveTrailingCommas(jsonCandidate)
    IN  IF firstBracket = 0 /\ firstSquare = 0
        THEN Threw("No JSON object/array found.")
        ELSE IF JsonParses(jsonCandidate) THEN Returned(jsonCandidate)
        ELSE IF JsonParses(repaired) THEN Returned(repaired)
        ELSE Threw("Unable to parse JSON from AI response after multiple repair attempts.")

\* ---- the texts the function is given ----

\* {"w":1}  [1,1]  {"w":[1,1]}  {"w":{"w":1}}  ["w,]"]  [[1],"w\""]
JsonDocuments ==
    { <<"{", "q", "w", "q", ":", "1", "}">>,
      <<"[", "1", ",", "1", "]">>,
      <<"{", "q", "w", "q", ":", "[", "1", ",", "1", "]", "}">>,
      <<"{", "q", "w", "q", ":", "{", "q", "w", "q", ":", "1", "}", "}">>,
      <<"[", "q", "w", ",", "]", "q", "]">>,
      <<"[", "[", "1", "]", ",", "q", "w", "b", "q", "q", "]">> }

RECURSIVE WithTrailingCommasFrom(_, _, _)
\* A comma is put before every closing bracket that ends a non-empty
\* object or array.
WithTrailingCommasFrom(text, p, inString) ==
    CASE p > Len(text) -> <<>>
      [] inString /\ text[p] = "b" ->
            <<"b", At(text, p + 1)>> \o WithTrailingCommasFrom(text, p + 2, TRUE)
      [] text[p] = "q" -> <<"q">> \o WithTrailingCommasFrom(text, p + 1, ~inString)
      [] ~inString /\ text[p] \in {"}", "]"} /\ At(text, p - 1) \notin {"{", "["} ->
            <<",", text[p]>> \o WithTrailingCommasFrom(text, p + 1, FALSE)
      [] OTHER -> <<text[p]>> \o WithTrailingCommasFrom(text, p + 1, inString)

WithTrailingCommas(text) == WithTrailingCommasFrom(text, 1, FALSE)

\* The closing brackets a text ends with.
RECURSIVE TrailingClosers(_)
TrailingClosers(text) ==
    IF text # <<>> /\ text[Len(text)] \in {"}", "]"}
    THEN 1 + TrailingClosers(SubSeq(text, 1, Len(text) - 1))
    ELSE 0

\* The response cut off before its last cut closing brackets.
Truncated(text, cut) == SubSeq(text, 1, Len(text) - cut)

Fences == {"none", "plain", "json"}

Fenced(text, fence) ==
    CASE fence = "none" -> text
      [] fence = "plain" -> <<"fence", "s">> \o text \o <<"s", "fence">>
      [] fence = "json" -> <<"fence", "json", "s">> \o text \o <<"s", "fence">>

\* A conversational prefix: words without a bracket.
Prefixed(text, prefix) == IF prefix THEN <<"w", "w", ":", "s">> \o text ELSE text

Padded(text, pad) == IF pad THEN <<"s">> \o text \o <<"s">> ELSE text

Altered(document, commas, cut, fence, prefix, pad) ==
    LET withCommas == IF commas THEN WithTrailingCommas(document) ELSE document
    IN  Prefixed(Fenced(Padded(Truncated(withCommas, cut), pad), fence), prefix)

ExtractInit ==
    \E document \in JsonDocuments, commas \in BOOLEAN, cut \in 0..MaxCut,
       fence \in Fences, prefix \in BOOLEAN, pad \in BOOLEAN :
        /\ cut <= TrailingClosers(document)
        /\ pf = [fn |-> "extractJson", pc |-> "call", document |-> document,
                 text |-> Altered(document, commas, cut, fence, prefix, pad),
                 out |-> Returned(<<>>), again |-> Returned(<<>>)]

ExtractCall ==
    /\ pf.fn = "extractJson" /\ pf.pc = "call"
    /\ pf' = [pf EXCEPT !.pc = "returned", !.out = extractJson(pf.text)]
    /\ PfOthers

\* extractJson applied to what it returned.
ExtractAgain ==
    /\ pf.fn = "extractJson" /\ pf.pc = "returned" /\ ~pf.out.threw
    /\ pf' = [pf EXCEPT !.pc = "again", !.again = extractJson(pf.out.ret)]
    /\ PfOthers

ExtractNext == ExtractCall \/ ExtractAgain

ExtractSpecInit ==
    ExtractInit /\ rt = RtIdle /\ ft = FtIdle /\ lk = LkIdle /\ OrchIdle /\ pool = PoolIdle

SpecExtract == ExtractSpecInit /\ [][ExtractNext]_vars

\* C24: for a text that is well-formed JSON, extractJson returns the text
\* as it is, and applied to its result returns the same again.
C24_IdempotentOnWellFormed ==
    (pf.fn = "extractJson" /\ JsonParses(pf.text)) =>
        /\ pf.pc # "call" => (~pf.out.threw /\ pf.out.ret = pf.text)
        /\ pf.pc = "again" => (~pf.again.threw /\ pf.again.ret = pf.out.ret)

\* extractJson was applied twice to a well-formed text with whitespace
\* around a nested document.
C24_Witness ==
    /\ pf.fn = "extractJson" /\ pf.pc = "again" /\ JsonParses(pf.text)
    /\ pf.text[1] = "s" /\ Len(pf.document) > 7

\* C25: for a JSON object or array altered by trailing commas, markdown
\* fences, a conversational prefix or a truncation that leaves objects or
\* arrays unclosed, extractJson returns a text that parses and has the value
\* of the document, string contents included.
C25_RecoversAlteredJson ==
    (pf.fn = "extractJson" /\ pf.pc # "call") =>
        /\ ~pf.out.threw
        /\ JsonParses(pf.out.ret)
        /\ ValueOf(pf.out.ret) = ValueOf(pf.document)

(***************************************************************************)
(* validateAndRepairInternalLinks (1012-1089) on its own                   *)
(***************************************************************************)

\* A page whose title has no word of more than two characters.
PageAi == [slug |-> "ai", id |-> "https://example.com/ai", title |-> <<"ai">>]

RepairPages == AllPages \cup {PageAi}

RepairCatalogues ==
    { c \in UNION { [1..n -> RepairPages] : n \in 0..MaxCatalogue } :
        \A i, j \in DOMAIN c : i # j => c[i] # c[j] }

\* Text, a malformed placeholder, and well-formed placeholders: of a real
\* slug, and of invented slugs with an anchor text inside a title, equal
\* to a title, and in no title.
RepairTokens ==
    { Txt(<<"hello">>),
      Ph(<<SlugAttr("seo-guide")>>),
      Placeholder("seo-guide", <<"seo", "guide">>),
      Placeholder("seo-guide-2025", <<"seo", "guide">>),
      Placeholder("best-tips", <<"seo", "tips">>),
      Placeholder("ai-tools", <<"ai">>),
      Placeholder("made-up", <<"hello">>) }

RepairBodies == UNION { [1..n -> RepairTokens] : n \in 0..MaxBodyLen }

RepairInit ==
    \E content \in RepairBodies, availablePages \in RepairCatalogues :
        pf = [fn |-> "validateAndRepairInternalLinks", pc |-> "call",
              content |-> content, pages |-> availablePages, out |-> content]

RepairCall ==
    /\ pf.fn = "validateAndRepairInternalLinks" /\ pf.pc = "call"
    /\ pf' = [pf EXCEPT !.pc = "returned",
                        !.out = validateAndRepairInternalLinks(pf.content, pf.pages)]
    /\ PfOthers

RepairNext == RepairCall

RepairSpecInit ==
    RepairInit /\ rt = RtIdle /\ ft = FtIdle /\ lk = LkIdle /\ OrchIdle /\ pool = PoolIdle

SpecRepair == RepairSpecInit /\ [][RepairNext]_vars

\* The highest-scoring page of a catalogue for an anchor text, the first
\* one in catalogue order among those of the highest score.
HighestScoring(pages, text) ==
    CHOOSE i \in DOMAIN pages :
        /\ \A j \in DOMAIN pages : ~Greater(ScoreOf(pages[j], text), ScoreOf(pages[i], text))
        /\ \A j \in 1..(i - 1) : Greater(ScoreOf(pages[i], text), ScoreOf(pages[j], text))

\* C26: with a catalogue that is not empty, a well-formed placeholder of a
\* catalogue slug is left as it is; any other one becomes a placeholder of
\* the highest-scoring page with the same anchor text when that score
\* exceeds 50, and the bare anchor text otherwise; no well-formed
\* placeholder of an unknown slug is left.
C26_RepairPicksHighestScoring ==
    (pf.fn = "validateAndRepairInternalLinks" /\ pf.pc = "returned" /\ pf.pages # <<>>) =>
        /\ Len(pf.out) = Len(pf.content)
        /\ \A i \in DOMAIN pf.content :
              LET tok == pf.content[i]
                  best == pf.pages[HighestScoring(pf.pages, TextOf(tok))]
              IN  WellFormed(tok) =>
                    pf.out[i] =
                        IF \E j \in DOMAIN pf.pages : pf.pages[j].slug = SlugOf(tok) THEN tok
                        ELSE IF AboveThreshold(ScoreOf(best, TextOf(tok)))
                        THEN Placeholder(best.slug, TextOf(tok))
                        ELSE Txt(TextOf(tok))
        /\ \A i \in DOMAIN pf.out :
              WellFormed(pf.out[i]) =>
                  \E j \in DOMAIN pf.pages : pf.pages[j].slug = SlugOf(pf.out[i])

(***************************************************************************)
(* Claims on the orchestrator: edit-and-resave, termination, runs per item *)
(***************************************************************************)

\* C23: handleSaveChanges on a done item leaves the item done with the
\* edited content as its generated content, and leaves the status and the
\* generated content of every other item as they were.
C23_SaveKeepsDone ==
    [][\A i \in ItemIds :
          HandleSaveChanges(i) =>
              /\ items'[i].status = "done"
              /\ items'[i].generatedContent = "edited"
              /\ \A j \in ItemIds \ {i} :
                    /\ items'[j].status = items[j].status
                    /\ items'[j].generatedContent = items[j].generatedContent]_vars

\* The call a run is parked at returns or fails.
RunReturns(r) ==
    \/ \E ok \in BOOLEAN : LinkOptimizerReturn(r, ok)
    \/ \E ok \in BOOLEAN : SerpReturn(r, ok)
    \/ VideosReturn(r)
    \/ \E ok \in BOOLEAN : KeywordsReturn(r, ok)
    \/ \E ok, more, moreFaq \in BOOLEAN : OutlineReturn(r, ok, more, moreFaq)
    \/ \E ok, more, moreFaq \in BOOLEAN : SectionReturn(r, ok, more, moreFaq)
    \/ \E ok, more \in BOOLEAN : FaqReturn(r, ok, more)
    \/ \E fin \in {"ok", "short", "throw"}, more \in BOOLEAN : ReferencesReturn(r, fin, more)
    \/ \E fin \in {"ok", "short"}, more \in BOOLEAN : ImageReturn(r, fin, more)

\* The orchestrator when every network and provider call eventually returns
\* or fails; the user's clicks are under no obligation.
SpecLive == Spec /\ \A r \in RunIds : WF_vars(RunReturns(r))

\* C27: when every call eventually returns or fails, an item that is
\* generating eventually is done, in error or idle.
C27_GeneratingEnds ==
    \A i \in ItemIds :
        (items[i].status = "generating") ~> (items[i].status \in {"done", "error", "idle"})

\* ---- one item, and room for a second call of generateContent ----

RerunItems == 1
RerunRuns == 2

RerunInit ==
    /\ rt = RtIdle /\ ft = FtIdle /\ lk = LkIdle /\ pool = PoolIdle /\ pf = PfIdle
    /\ items \in [1..RerunItems -> {[type |-> t, status |-> "idle", statusText |-> "Not Started",
                                     generatedContent |-> "null"] : t \in Types}]
    /\ stopSet = {}
    /\ runs = [r \in 1..RerunRuns |-> NoRun]
    /\ isGenerating = FALSE
    /\ apiCache = {}

\* A click on the one item, or the call a run is parked at returns.
RerunNext ==
    \/ \E i \in 1..RerunItems, r \in 1..RerunRuns : HandleGenerateSingle(i, r)
    \/ \E sel \in SUBSET (1..RerunItems), r \in 1..RerunRuns : HandleGenerateSelected(sel, r)
    \/ \E i \in 1..RerunItems : HandleStopGeneration(i)
    \/ HandleStopAll
    \/ \E i \in 1..RerunItems : HandleSaveChanges(i)
    \/ \E r \in 1..RerunRuns : RunReturns(r)

SpecRerun == RerunInit /\ [][RerunNext]_vars

\* C28: no item is being processed by two runs of generateContent at a time.
C28_OneRunPerItem ==
    \A i \in DOMAIN items :
        items[i].type = "standard" =>
            Cardinality({r \in DOMAIN runs : Processing(r, i)}) <= 1

\* C29: a run that has ended has driven to done or error every item of its
\* list that comes after an item cancelled during the run and was not
\* cancelled itself.
C29_StopOnlyThatItem ==
    \A r \in RunIds : \A k, j \in DOMAIN runs[r].res :
        ( /\ runs[r].pc = "ended" /\ k < j
          /\ runs[r].res[k] \in {"stopped", "skipped"}
          /\ items[runs[r].list[k]].type = "standard"
          /\ runs[r].res[j] # "skipped" /\ runs[r].list[j] \notin stopSet )
            => runs[r].res[j] \in {"done"} \cup Failed

(***************************************************************************)
(* Claim on processConcurrently with a processor that fails                *)
(***************************************************************************)

\* C30: without a stop, whether or not processor calls fail, no item is
\* claimed twice, the promise is not settled while a processor call is in
\* flight, and once no call is in flight every item has been claimed.
C30_FailureSparesOthers ==
    (pool.pc = "awaiting" /\ ~pool.stop) =>
        /\ \A x \in 1..pool.total : pool.started[x] <= 1
        /\ pool.promise # "pending" => InFlight = {}
        /\ InFlight = {} => \A x \in 1..pool.total : pool.started[x] = 1

====
